---- MODULE Spec2Model ----
(***************************************************************************)
(* A model of the hanime1.me retrieval client (src/modules/client.py),     *)
(* the Video record (src/modules/video.py) and the primitive parsers       *)
(* (src/modules/utils.py).                                                 *)
(*                                                                         *)
(* Python strings are sequences of atoms: an atom is one character, or a   *)
(* unit the code treats as a whole (an HTML entity such as "&amp;", a tag  *)
(* such as "<b>", the word "user").  Python values (JSON values, preview   *)
(* fields) are records tagged by t: "str", "int", "bool", "null", "float", *)
(* "list", "dict".  A dict keeps its entries in insertion order.           *)
(***************************************************************************)
EXTENDS Integers, Sequences, FiniteSets, TLC

VARIABLES
    \* ---- _extract_videos_from_json applied to one value
    jsonSpine,     \* the description the input value is built from
    jsonData,      \* the input value
    jsonOut,       \* the returned previews
    jsonPc,        \* "ready" | "done"
    \* ---- format_duration / parse_duration applied to one value
    durSeconds,    \* the number of seconds given to format_duration
    durText,       \* the text format_duration returned
    durParsed,     \* what parse_duration returned for durText
    durPc,         \* "ready" | "formatted" | "parsed"
    \* ---- format_views / parse_views applied to one count
    viewsCount,    \* the count given to format_views
    viewsText,     \* the text format_views returned
    viewsParsed,   \* what parse_views returned for viewsText
    viewsPc,       \* "ready" | "formatted" | "parsed"
    \* ---- parse_duration / parse_views applied to one text
    rawText,       \* the text
    rawFn,         \* the parser that ran: "none" | "parse_duration" | "parse_views"
    rawOut,        \* [ret, exc]: the number returned, or the exception raised
    rawPc,         \* "ready" | "done"
    \* ---- _parse_video_list applied to one document
    listHtml,      \* the document, a sequence of tokens
    listLimit,     \* the limit argument
    listOut,       \* the returned previews
    listPc,        \* "ready" | "done"
    \* ---- _parse_embedded_json / _parse_nuxt_payload applied to one document
    exHtml,        \* the document, a sequence of tokens
    exLimit,       \* the limit argument
    exWhich,       \* the extractor that ran: "embedded" | "nuxt" | "none"
    exOut,         \* [ret, exc]: the returned previews, or the exception raised
    exPc,          \* "ready" | "done"
    \* ---- Video.fetch answered with one detail document
    detHtml,       \* the document, a sequence of tokens
    detVideo,      \* the Video
    detRet,        \* what fetch returned: "none" | "true" | "false"
    detPc,         \* "ready" | "done"
    \* ---- one Video object and the fetches made on it
    vidObj,        \* the Video
    vidOrigin,     \* how it was made: "constructor" | "to_video"
    vidPreview,    \* the preview to_video was called on
    vidBefore,     \* the Video as it was when the last fetch began
    vidResp,       \* how the request of the last fetch ended
    vidRet,        \* what the last fetch returned: "none" | "true" | "false"
    vidRequests,   \* the ids of the detail requests made for it
    \* ---- the session of one HanimeClient under concurrent tasks and close()
    sessStore,     \* the sessions the client created, in order: "open" | "closed"
    selfSession,   \* self._session: 0 for None, or the index of a session
    inFlight,      \* per task: the session its request is on, 0 without a request
    sessCalls,     \* the network operations begun
    sessLast,      \* the last step taken, with self._session and the store before it
    \* ---- the /hs command applied to one args value
    cmdArgs,       \* args, as the sequence of its elements (each a string)
    cmdKind,       \* what args is: "str" (its elements are its characters) | "list"
    cmdOut,        \* [searched, page, query, exc]: the call of client.search, if any
    cmdPc,         \* "ready" | "done"
    \* ---- Video.fetch and download_image, with and without a session
    ownFn,         \* "fetch" | "download_image" | "none"
    ownArg,        \* the session argument: "none" (None) | "open"
    ownUrl,        \* the url argument of download_image
    ownPc,         \* "idle" | "called" | "requesting" | "finally" | "returned"
    ownSess,       \* the session the call uses: "none" | "open" | "closed"
    ownFlag,       \* close_session
    ownResp,       \* how the request ended
    ownOut,        \* [ret, exc]: what the call returns or raises
    ownCalls,      \* the calls made so far
    \* ---- the commands of the plugin at work on one cache directory
    cacheFiles,    \* file name -> the image in the file, "absent" without a file
    commands,      \* command number -> [kind, id, pc, image, path, sent]
    \* ---- one HanimeClient and the operation running on it
    session,       \* self._session: "none" | "open" | "closed"
    op,            \* the operation called: "none" | "latest" | "search" | "video" | "random"
    pc,            \* "idle" | "wait_listing" | "wait_detail" | "done"
    latestLimit,   \* the limit given to get_latest
    reqId,         \* the video id of the detail request in flight
    broken,        \* the session was closed under the request in flight
    attempt,       \* get_random: the attempt of the id-guessing loop, -1 outside it
    tierLog,       \* the extraction tiers get_latest ran, with what each gave
    fetchLog,      \* the detail fetches of the operation, with what each gave
    listing,       \* get_random: the previews get_latest returned
    lastResp,      \* how the last request of the operation ended
    requests,      \* the requests the operation has sent: "listing" | "detail"
    opResult       \* [val, exc]: what the operation returned or raised

jsonVars == <<jsonSpine, jsonData, jsonOut, jsonPc>>

durVars == <<durSeconds, durText, durParsed, durPc>>

viewsVars == <<viewsCount, viewsText, viewsParsed, viewsPc>>

rawVars == <<rawText, rawFn, rawOut, rawPc>>

listVars == <<listHtml, listLimit, listOut, listPc>>

exVars == <<exHtml, exLimit, exWhich, exOut, exPc>>

detVars == <<detHtml, detVideo, detRet, detPc>>

vidVars == <<vidObj, vidOrigin, vidPreview, vidBefore, vidResp, vidRet, vidRequests>>

sessVars == <<sessStore, selfSession, inFlight, sessCalls, sessLast>>

cmdVars == <<cmdArgs, cmdKind, cmdOut, cmdPc>>

ownVars == <<ownFn, ownArg, ownUrl, ownPc, ownSess, ownFlag, ownResp, ownOut, ownCalls>>

cacheVars == <<cacheFiles, commands>>

clientVars == <<session, op, pc, latestLimit, reqId, broken, attempt, tierLog, fetchLog,
                listing, lastResp, requests, opResult>>

vars == <<jsonSpine, jsonData, jsonOut, jsonPc,
          durSeconds, durText, durParsed, durPc,
          viewsCount, viewsText, viewsParsed, viewsPc,
          rawText, rawFn, rawOut, rawPc,
          listHtml, listLimit, listOut, listPc,
          exHtml, exLimit, exWhich, exOut, exPc,
          detHtml, detVideo, detRet, detPc,
          vidObj, vidOrigin, vidPreview, vidBefore, vidResp, vidRet, vidRequests,
          sessStore, selfSession, inFlight, sessCalls, sessLast,
          cmdArgs, cmdKind, cmdOut, cmdPc,
          ownFn, ownArg, ownUrl, ownPc, ownSess, ownFlag, ownResp, ownOut, ownCalls,
          cacheFiles, commands,
          session, op, pc, latestLimit, reqId, broken, attempt, tierLog, fetchLog,
          listing, lastResp, requests, opResult>>

\* what an action of one part of the model leaves alone
notJson == <<durVars, viewsVars, rawVars, listVars, exVars, detVars, vidVars, sessVars, cmdVars, ownVars, cacheVars, clientVars>>
notDur == <<jsonVars, viewsVars, rawVars, listVars, exVars, detVars, vidVars, sessVars, cmdVars, ownVars, cacheVars, clientVars>>
notViews == <<jsonVars, durVars, rawVars, listVars, exVars, detVars, vidVars, sessVars, cmdVars, ownVars, cacheVars, clientVars>>
notRaw == <<jsonVars, durVars, viewsVars, listVars, exVars, detVars, vidVars, sessVars, cmdVars, ownVars, cacheVars, clientVars>>
notList == <<jsonVars, durVars, viewsVars, rawVars, exVars, detVars, vidVars, sessVars, cmdVars, ownVars, cacheVars, clientVars>>
notEx == <<jsonVars, durVars, viewsVars, rawVars, listVars, detVars, vidVars, sessVars, cmdVars, ownVars, cacheVars, clientVars>>
notDet == <<jsonVars, durVars, viewsVars, rawVars, listVars, exVars, vidVars, sessVars, cmdVars, ownVars, cacheVars, clientVars>>
notVid == <<jsonVars, durVars, viewsVars, rawVars, listVars, exVars, detVars, sessVars, cmdVars, ownVars, cacheVars, clientVars>>
notSess == <<jsonVars, durVars, viewsVars, rawVars, listVars, exVars, detVars, vidVars, cmdVars, ownVars, cacheVars, clientVars>>
notCmd == <<jsonVars, durVars, viewsVars, rawVars, listVars, exVars, detVars, vidVars, sessVars, ownVars, cacheVars, clientVars>>
notOwn == <<jsonVars, durVars, viewsVars, rawVars, listVars, exVars, detVars, vidVars, sessVars, cmdVars, cacheVars, clientVars>>
notCache == <<jsonVars, durVars, viewsVars, rawVars, listVars, exVars, detVars, vidVars, sessVars, cmdVars, ownVars, clientVars>>
notClient == <<jsonVars, durVars, viewsVars, rawVars, listVars, exVars, detVars, vidVars, sessVars, cmdVars, ownVars, cacheVars>>

-----------------------------------------------------------------------------
(* Sequences and strings *)

SeqRange(s) == {s[i] : i \in 1..Len(s)}

RECURSIVE Flatten(_)
Flatten(ss) == IF ss = <<>> THEN <<>> ELSE Head(ss) \o Flatten(Tail(ss))

\* s[:n] of Python for a sequence and n >= 0
Prefix(s, n) == SubSeq(s, 1, IF n < Len(s) THEN n ELSE Len(s))

DigitChars == <<"0", "1", "2", "3", "4", "5", "6", "7", "8", "9">>

DigitSet == SeqRange(DigitChars)

\* the decimal digits of a natural number, as str() and format write them
RECURSIVE Digits(_)
Digits(n) == IF n < 10 THEN <<DigitChars[n + 1]>>
             ELSE Digits(n \div 10) \o <<DigitChars[(n % 10) + 1]>>

\* str.isdigit(): non-empty and every character a digit
IsDigit(s) == s # <<>> /\ \A i \in 1..Len(s) : s[i] \in DigitSet

-----------------------------------------------------------------------------
(* Python values *)

PStr(s) == [t |-> "str", v |-> s]
PInt(n) == [t |-> "int", v |-> n]
PBool(b) == [t |-> "bool", v |-> b]
PNull == [t |-> "null"]
PFloat == [t |-> "float"]
PList(items) == [t |-> "list", e |-> items]
PDict(entries) == [t |-> "dict", e |-> entries]

EmptyStr == PStr(<<>>)

\* str(x)
PyStr(x) ==
    CASE x.t = "str" -> x.v
      [] x.t = "int" -> IF x.v >= 0 THEN Digits(x.v) ELSE <<"-">> \o Digits(0 - x.v)
      [] x.t = "bool" -> IF x.v THEN <<"T", "r", "u", "e">> ELSE <<"F", "a", "l", "s", "e">>
      [] x.t = "null" -> <<"N", "o", "n", "e">>
      [] x.t = "float" -> <<"1", ".", "5">>
      [] x.t = "list" -> <<"[", "]">>
      [] x.t = "dict" -> <<"{", "}">>

\* bool(x), as `or` and `if` use it
Truthy(x) ==
    CASE x.t = "str" -> x.v # <<>>
      [] x.t = "int" -> x.v # 0
      [] x.t = "bool" -> x.v
      [] x.t = "null" -> FALSE
      [] x.t = "float" -> TRUE
      [] x.t = "list" -> x.e # <<>>
      [] x.t = "dict" -> x.e # <<>>

\* key in data
HasKey(d, k) == \E i \in 1..Len(d.e) : d.e[i][1] = k

\* data.get(key): the value, or None
DictGet(d, k) ==
    IF HasKey(d, k)
    THEN d.e[CHOOSE i \in 1..Len(d.e) : d.e[i][1] = k][2]
    ELSE PNull

\* a or b or c or "" over the values of the given keys
RECURSIVE FirstTruthy(_, _)
FirstTruthy(d, keys) ==
    IF keys = <<>> THEN EmptyStr
    ELSE IF Truthy(DictGet(d, Head(keys))) THEN DictGet(d, Head(keys))
    ELSE FirstTruthy(d, Tail(keys))

-----------------------------------------------------------------------------
(* VideoPreview *)

VideoPreview(vid, title, thumbnail) ==
    [video_id |-> vid, title |-> title, thumbnail |-> thumbnail]

PreviewIds(ps) == [i \in 1..Len(ps) |-> ps[i].video_id]

-----------------------------------------------------------------------------
(* _extract_videos_from_json *)

DefaultMaxDepth == 5

ContainerKeys == {"videos", "items", "results", "data", "hentai_videos", "state"}

\* the id the code reads off a dict: "id" when it is an int or a str, else
\* "video_id" when present, else a numeric "slug"; <<>> stands for None
VidOf(data) ==
    IF HasKey(data, "id") /\ DictGet(data, "id").t \in {"int", "str", "bool"}
    THEN PyStr(DictGet(data, "id"))
    ELSE IF HasKey(data, "video_id")
    THEN PyStr(DictGet(data, "video_id"))
    ELSE IF HasKey(data, "slug") /\ IsDigit(PyStr(DictGet(data, "slug")))
    THEN PyStr(DictGet(data, "slug"))
    ELSE <<>>

\* the preview of a dict, as a list of zero or one element
OwnPreview(data) ==
    LET vid == VidOf(data)
        title == FirstTruthy(data, <<"name", "title">>)
        thumbnail == FirstTruthy(data, <<"cover_url", "thumbnail", "poster_url", "cover">>)
    IN IF vid # <<>> /\ IsDigit(vid) /\ (Truthy(title) \/ Truthy(thumbnail))
       THEN <<VideoPreview(vid, title, thumbnail)>>
       ELSE <<>>

\* a depth bound that is checked one level too late: a node is still visited
\* with max_depth = 0
RECURSIVE ExtractVideosOffByOne(_, _)
ExtractVideosOffByOne(data, max_depth) ==
    IF max_depth < 0 THEN <<>>
    ELSE IF data.t = "dict"
    THEN OwnPreview(data) \o
         Flatten([i \in 1..Len(data.e) |->
                    IF data.e[i][1] \in ContainerKeys
                    THEN ExtractVideosOffByOne(data.e[i][2], max_depth - 1)
                    ELSE <<>>])
    ELSE IF data.t = "list"
    THEN Flatten([i \in 1..Len(data.e) |-> ExtractVideosOffByOne(data.e[i], max_depth - 1)])
    ELSE <<>>

RECURSIVE ExtractVideosFromJson(_, _)
ExtractVideosFromJson(data, max_depth) ==
    IF max_depth <= 0 THEN <<>>
    ELSE IF data.t = "dict"
    THEN OwnPreview(data) \o
         Flatten([i \in 1..Len(data.e) |->
                    IF data.e[i][1] \in ContainerKeys
                    THEN ExtractVideosFromJson(data.e[i][2], max_depth - 1)
                    ELSE <<>>])
    ELSE IF data.t = "list"
    THEN Flatten([i \in 1..Len(data.e) |-> ExtractVideosFromJson(data.e[i], max_depth - 1)])
    ELSE <<>>

-----------------------------------------------------------------------------
(* Input values for _extract_videos_from_json: a spine of nested nodes.     *)
(* Node i of the spine (the root is node 0) is a list, a plain dict or a    *)
(* record-shaped dict whose id is i; a dict holds the next node under a    *)
(* container key or under a key the code does not descend into; a list     *)
(* holds it as an element, optionally after a record-shaped leaf of id     *)
(* 10 + i.                                                                 *)

MaxNodes == 6

NodeKinds == {"list", "list2", "dict_videos", "dict_meta", "rec_data", "rec_meta"}

Spines == UNION {[1..n -> NodeKinds] : n \in 1..MaxNodes}

RecordEntries(id) == << <<"id", PInt(id)>>, <<"title", PStr(<<"t">> \o Digits(id))>> >>

LeafRecord(id) == PDict(RecordEntries(id))

RECURSIVE BuildNode(_, _)
BuildNode(spine, i) ==
    LET kind == spine[i]
        last == i = Len(spine)
        child == BuildNode(spine, i + 1)
    IN CASE kind = "list" -> PList(IF last THEN <<>> ELSE <<child>>)
         [] kind = "list2" -> PList(<<LeafRecord(10 + i - 1)>> \o (IF last THEN <<>> ELSE <<child>>))
         [] kind = "dict_videos" ->
              PDict(IF last THEN <<>> ELSE << <<"videos", child>> >>)
         [] kind = "dict_meta" ->
              PDict(IF last THEN <<>> ELSE << <<"meta", child>> >>)
         [] kind = "rec_data" ->
              PDict(RecordEntries(i - 1) \o (IF last THEN <<>> ELSE << <<"data", child>> >>))
         [] kind = "rec_meta" ->
              PDict(RecordEntries(i - 1) \o (IF last THEN <<>> ELSE << <<"meta", child>> >>))

BuildJson(spine) == BuildNode(spine, 1)

JsonInit ==
    /\ jsonSpine \in Spines
    /\ jsonData = BuildJson(jsonSpine)
    /\ jsonOut = <<>>
    /\ jsonPc = "ready"

JsonIdle ==
    /\ jsonSpine = <<>>
    /\ jsonData = PNull
    /\ jsonOut = <<>>
    /\ jsonPc = "off"

\* videos = self._extract_videos_from_json(data)
ExtractDefault ==
    /\ jsonPc = "ready"
    /\ jsonOut' = ExtractVideosFromJson(jsonData, DefaultMaxDepth)
    /\ jsonPc' = "done"
    /\ UNCHANGED <<jsonSpine, jsonData>>
    /\ UNCHANGED notJson

-----------------------------------------------------------------------------
(* format_duration and parse_duration *)

\* f"{n:02d}" for n >= 0
Pad2(n) == IF n < 10 THEN <<"0">> \o Digits(n) ELSE Digits(n)

\* minutes computed from the whole number of seconds, the hours not taken out
FormatDurationMinutesNotReduced(seconds) ==
    IF seconds <= 0 THEN <<"0", "0", ":", "0", "0">>
    ELSE LET hours == seconds \div 3600
             minutes == seconds \div 60
             secs == seconds % 60
         IN IF hours > 0
            THEN Pad2(hours) \o <<":">> \o Pad2(minutes) \o <<":">> \o Pad2(secs)
            ELSE Pad2(minutes) \o <<":">> \o Pad2(secs)

FormatDuration(seconds) ==
    IF seconds <= 0 THEN <<"0", "0", ":", "0", "0">>
    ELSE LET hours == seconds \div 3600
             minutes == (seconds % 3600) \div 60
             secs == seconds % 60
         IN IF hours > 0
            THEN Pad2(hours) \o <<":">> \o Pad2(minutes) \o <<":">> \o Pad2(secs)
            ELSE Pad2(minutes) \o <<":">> \o Pad2(secs)

\* str.strip() for the whitespace atom " "
RECURSIVE StripLeft(_)
StripLeft(s) == IF s # <<>> /\ Head(s) = " " THEN StripLeft(Tail(s)) ELSE s

RECURSIVE StripRight(_)
StripRight(s) ==
    IF s # <<>> /\ s[Len(s)] = " " THEN StripRight(SubSeq(s, 1, Len(s) - 1)) ELSE s

Strip(s) == StripRight(StripLeft(s))

\* str.split(sep): always at least one part
RECURSIVE Split(_, _)
Split(s, sep) ==
    IF \E i \in 1..Len(s) : s[i] = sep
    THEN LET i == CHOOSE k \in 1..Len(s) : s[k] = sep /\ \A j \in 1..(k - 1) : s[j] # sep
         IN <<SubSeq(s, 1, i - 1)>> \o Split(SubSeq(s, i + 1, Len(s)), sep)
    ELSE <<s>>

DigitValue(c) == (CHOOSE i \in 1..10 : DigitChars[i] = c) - 1

RECURSIVE DigitsValue(_)
DigitsValue(s) ==
    IF s = <<>> THEN 0 ELSE DigitsValue(SubSeq(s, 1, Len(s) - 1)) * 10 + DigitValue(s[Len(s)])

\* int(text): surrounding whitespace and one sign are accepted; anything else
\* that is not a run of digits raises ValueError (ok = FALSE)
PyInt(text) ==
    LET body == Strip(text)
        signed == body # <<>> /\ Head(body) \in {"-", "+"}
        digits == IF signed THEN Tail(body) ELSE body
    IN IF IsDigit(digits)
       THEN [ok |-> TRUE,
             v |-> IF signed /\ Head(body) = "-" THEN 0 - DigitsValue(digits)
                   ELSE DigitsValue(digits)]
       ELSE [ok |-> FALSE, v |-> 0]

ParseDuration(duration_str) ==
    IF duration_str = <<>> THEN 0
    ELSE LET parts == Split(Strip(duration_str), ":")
             ints == [i \in 1..Len(parts) |-> PyInt(parts[i])]
         IN IF Len(parts) = 2
            THEN IF ints[1].ok /\ ints[2].ok THEN ints[1].v * 60 + ints[2].v ELSE 0
            ELSE IF Len(parts) = 3
            THEN IF ints[1].ok /\ ints[2].ok /\ ints[3].ok
                 THEN ints[1].v * 3600 + ints[2].v * 60 + ints[3].v
                 ELSE 0
            ELSE 0

\* every number of seconds up to MaxSeconds, and numbers around whole hours
\* up to and beyond 100 hours
MaxSeconds == 4000

DurationInputs ==
    ((0 - 2)..MaxSeconds) \cup
    {h * 3600 + r : h \in {2, 9, 10, 99, 100, 101, 1000}, r \in {0, 1, 59, 60, 61, 3599}}

DurInit ==
    /\ durSeconds \in DurationInputs
    /\ durText = <<>>
    /\ durParsed = 0
    /\ durPc = "ready"

DurIdle ==
    /\ durSeconds = 0
    /\ durText = <<>>
    /\ durParsed = 0
    /\ durPc = "off"

\* text = format_duration(seconds)
DoFormatDuration ==
    /\ durPc = "ready"
    /\ durText' = FormatDuration(durSeconds)
    /\ durPc' = "formatted"
    /\ UNCHANGED <<durSeconds, durParsed>>
    /\ UNCHANGED notDur

\* parse_duration(text)
DoParseDuration ==
    /\ durPc = "formatted"
    /\ durParsed' = ParseDuration(durText)
    /\ durPc' = "parsed"
    /\ UNCHANGED <<durSeconds, durText>>
    /\ UNCHANGED notDur

DurNext == DoFormatDuration \/ DoParseDuration


\* C10: for every non-negative integer x, parse_duration(format_duration(x)) = x
C10_DurationRoundTrip ==
    (durPc = "parsed" /\ durSeconds >= 0) => durParsed = durSeconds

\* a value of 100 hours or more has gone through the round trip
C10_Witness ==
    /\ durPc = "parsed"
    /\ durSeconds >= 360000
    /\ Len(durText) = 9
    /\ durParsed = durSeconds

JsonNext == ExtractDefault


-----------------------------------------------------------------------------
(* format_views and parse_views.  The atoms "wan" and "wan_trad" stand for  *)
(* the two characters of the ten-thousand unit, U+4E07 and U+842C.          *)

\* 2^k mod 5
Pow2Mod5(k) == <<1, 2, 4, 3>>[(k % 4) + 1]

\* the j with 2^j <= a/20 < 2^(j+1), for a >= 20
RECURSIVE Log2Of20th(_, _)
Log2Of20th(a, j) == IF a >= 20 * 2^(j + 1) THEN Log2Of20th(a, j + 1) ELSE j

\* f"{x:.1f}" for a quotient x = (2q+1)/20 >= 1 halfway between the tenths q
\* and q+1: the division gives the double nearest to x, and the tenth chosen
\* is the one nearest to that double (the even one when x is a double).  The
\* double is m / 2^e with e = 52 - j and m the integer nearest to
\* (2q+1) * 2^(e-2) / 5; it lies above x exactly when the remainder of
\* (2q+1) * 2^(e-2) by 5 is 3 or 4.
HalfwayRoundsUp(q) ==
    IF (2 * q + 1) % 5 = 0 THEN q % 2 = 1
    ELSE (((2 * q + 1) % 5) * Pow2Mod5(50 - Log2Of20th(2 * q + 1, 0))) % 5 \in {3, 4}

\* the number of tenths f"{n / unit:.1f}" shows, for unit 1000 or 10000
Tenths(n, unit) ==
    IF 2 * (n % (unit \div 10)) > unit \div 10 THEN n \div (unit \div 10) + 1
    ELSE IF 2 * (n % (unit \div 10)) < unit \div 10 THEN n \div (unit \div 10)
    ELSE IF HalfwayRoundsUp(n \div (unit \div 10)) THEN n \div (unit \div 10) + 1
    ELSE n \div (unit \div 10)

\* f"{n / unit:.1f}"
OneDecimal(n, unit) ==
    Digits(Tenths(n, unit) \div 10) \o <<".">> \o Digits(Tenths(n, unit) % 10)

\* str(n)
StrOfInt(n) == IF n < 0 THEN <<"-">> \o Digits(0 - n) ELSE Digits(n)

FormatViews(views) ==
    IF views >= 10000 THEN OneDecimal(views, 10000) \o <<"wan">>
    ELSE IF views >= 1000 THEN OneDecimal(views, 1000) \o <<"k">>
    ELSE StrOfInt(views)

\* the atom "nines400" stands for a run of 400 digits 9
HugeRun == "nines400"

NumberChars == DigitSet \cup {",", ".", HugeRun}

HasHugeRun(s) == \E i \in 1..Len(s) : s[i] = HugeRun

\* re.search(r'([\d,.]+)', text): the leftmost longest run, <<>> when there is
\* no match
RECURSIVE NumberRun(_)
NumberRun(s) ==
    IF s = <<>> \/ Head(s) \notin NumberChars THEN <<>>
    ELSE <<Head(s)>> \o NumberRun(Tail(s))

RECURSIVE FirstNumberToken(_)
FirstNumberToken(s) ==
    IF s = <<>> THEN <<>>
    ELSE IF Head(s) \in NumberChars THEN NumberRun(s)
    ELSE FirstNumberToken(Tail(s))

\* str.replace(c, '')
Without(s, c) == SelectSeq(s, LAMBDA x : x # c)

\* float(text) for a text of digits and dots: the digits before and after the
\* dot; ValueError (ok = FALSE) unless there is at most one dot and at least
\* one digit
PyFloat(text) ==
    IF Len(SelectSeq(text, LAMBDA x : x = ".")) > 1 \/ Without(text, ".") = <<>>
    THEN [ok |-> FALSE, whole |-> <<>>, frac |-> <<>>]
    ELSE [ok |-> TRUE, whole |-> Split(text, ".")[1],
          frac |-> IF Len(Split(text, ".")) > 1 THEN Split(text, ".")[2] ELSE <<>>]

\* int(num * scale) for scale 1 or 10000, num >= 0.  The product of doubles
\* is the decimal value for the numbers drawn here (those with at most one
\* digit after the dot); with more digits after the dot it can be one less.
TruncScaled(num, scale) ==
    DigitsValue(num.whole) * scale + (DigitsValue(num.frac) * scale) \div (10 ^ Len(num.frac))

HasWan(s) == \E i \in 1..Len(s) : s[i] \in {"wan", "wan_trad"}

\* parse_views from the number token on, with the try block left bare
ViewsOfTokenUncaught(text, token) ==
    IF ~PyFloat(Without(token, ",")).ok THEN [ret |-> 0, exc |-> "ValueError"]
    ELSE IF HasHugeRun(token) THEN [ret |-> 0, exc |-> "OverflowError"]
    ELSE [ret |-> TruncScaled(PyFloat(Without(token, ",")), IF HasWan(text) THEN 10000 ELSE 1),
          exc |-> "none"]

\* parse_views from the number token on: except (ValueError, TypeError).
\* float() of a run of 400 digits is inf, and int(inf) raises OverflowError,
\* which is neither.
ViewsOfToken(text, token) ==
    IF ~PyFloat(Without(token, ",")).ok THEN [ret |-> 0, exc |-> "none"]
    ELSE IF HasHugeRun(token) THEN [ret |-> 0, exc |-> "OverflowError"]
    ELSE [ret |-> TruncScaled(PyFloat(Without(token, ",")), IF HasWan(text) THEN 10000 ELSE 1),
          exc |-> "none"]

\* parse_views: what it returns, or the exception that leaves it
ParseViewsOutcome(views_str) ==
    IF views_str = <<>> THEN [ret |-> 0, exc |-> "none"]
    ELSE IF FirstNumberToken(Strip(views_str)) = <<>> THEN [ret |-> 0, exc |-> "none"]
    ELSE ViewsOfToken(Strip(views_str), FirstNumberToken(Strip(views_str)))

ParseViews(views_str) == ParseViewsOutcome(views_str).ret

\* every count up to MaxViews
MaxViews == 60000

ViewsInit ==
    /\ viewsCount \in 0..MaxViews
    /\ viewsText = <<>>
    /\ viewsParsed = 0
    /\ viewsPc = "ready"

ViewsIdle ==
    /\ viewsCount = 0
    /\ viewsText = <<>>
    /\ viewsParsed = 0
    /\ viewsPc = "off"

\* text = format_views(views)
DoFormatViews ==
    /\ viewsPc = "ready"
    /\ viewsText' = FormatViews(viewsCount)
    /\ viewsPc' = "formatted"
    /\ UNCHANGED <<viewsCount, viewsParsed>>
    /\ UNCHANGED notViews

\* parse_views(text)
DoParseViews ==
    /\ viewsPc = "formatted"
    /\ viewsParsed' = ParseViews(viewsText)
    /\ viewsPc' = "parsed"
    /\ UNCHANGED <<viewsCount, viewsText>>
    /\ UNCHANGED notViews

ViewsNext == DoFormatViews \/ DoParseViews

\* C11: parse_views(format_views(n)) differs from n by at most 1% of n for
\* every n >= 1000, and equals n for 0 <= n < 1000.
C11_ViewsRoundTrip ==
    viewsPc = "parsed" =>
        /\ viewsCount < 1000 => viewsParsed = viewsCount
        /\ viewsCount >= 1000 =>
              /\ 100 * (viewsParsed - viewsCount) <= viewsCount
              /\ 100 * (viewsCount - viewsParsed) <= viewsCount

\* what the round trip does give: n below 1000; the whole thousands shown
\* from 1000 to 9999, the unit k being dropped; the nearest thousand from
\* 10000 on
C11_RoundTripValues ==
    viewsPc = "parsed" =>
        /\ viewsCount < 1000 => viewsParsed = viewsCount
        /\ (viewsCount >= 1000 /\ viewsCount < 10000) =>
              viewsParsed = Tenths(viewsCount, 1000) \div 10
        /\ viewsCount >= 10000 =>
              /\ viewsParsed = Tenths(viewsCount, 10000) * 1000
              /\ viewsParsed - viewsCount <= 500
              /\ viewsCount - viewsParsed <= 500

-----------------------------------------------------------------------------
(* parse_duration and parse_views on the texts of at most MaxTextLen atoms *)

MaxTextLen == 5

RawAtoms == {"1", ".", ",", ":", "a", " ", "wan"}

RawTexts == UNION {[1..n -> RawAtoms] : n \in 0..MaxTextLen}

RawInit ==
    /\ rawText \in RawTexts
    /\ rawFn = "none"
    /\ rawOut = [ret |-> 0, exc |-> "none"]
    /\ rawPc = "ready"

RawIdle ==
    /\ rawText = <<>>
    /\ rawFn = "none"
    /\ rawOut = [ret |-> 0, exc |-> "none"]
    /\ rawPc = "off"

\* parse_duration(text)
DoParseDurationText ==
    /\ rawPc = "ready"
    /\ rawFn' = "parse_duration"
    /\ rawOut' = [ret |-> ParseDuration(rawText), exc |-> "none"]
    /\ rawPc' = "done"
    /\ UNCHANGED rawText
    /\ UNCHANGED notRaw

\* parse_views(text)
DoParseViewsText ==
    /\ rawPc = "ready"
    /\ rawFn' = "parse_views"
    /\ rawOut' = ParseViewsOutcome(rawText)
    /\ rawPc' = "done"
    /\ UNCHANGED rawText
    /\ UNCHANGED notRaw

RawNext == DoParseDurationText \/ DoParseViewsText

HasDigit(text) == \E i \in 1..Len(text) : text[i] \in DigitSet

\* a part of a duration that is a whole number: digits, with an optional
\* sign and surrounding blanks
NumericPart(part) ==
    \E i, j \in 1..Len(part) :
        /\ i <= j
        /\ \A k \in 1..(i - 1) : part[k] = " " \/ (k = i - 1 /\ part[k] \in {"-", "+"})
        /\ \A k \in i..j : part[k] \in DigitSet
        /\ \A k \in (j + 1)..Len(part) : part[k] = " "

\* the number of atoms c in the text
CountOf(text, c) == Cardinality({i \in 1..Len(text) : text[i] = c})

MalformedDuration(text) ==
    \/ text = <<>>
    \/ ~HasDigit(text)
    \/ CountOf(text, ":") \notin {1, 2}
    \/ \E part \in SeqRange(Split(Strip(text), ":")) : ~NumericPart(part)

\* the numeric token of a view string is not a number: it has two dots or
\* more, or no digit
MalformedViews(text) ==
    \/ text = <<>>
    \/ ~HasDigit(text)
    \/ CountOf(FirstNumberToken(text), ".") > 1
    \/ ~HasDigit(FirstNumberToken(text))

\* C12: parse_duration and parse_views return 0 and raise nothing for every
\* malformed text: the empty text, a text without digits, a duration that
\* does not split on ':' into 2 or 3 parts, a duration with a part that is
\* not a number, a view string whose numeric token is not a number.
C12_MalformedGivesZero ==
    rawPc = "done" =>
        /\ rawOut.exc = "none"
        /\ (rawFn = "parse_duration" /\ MalformedDuration(rawText)) => rawOut.ret = 0
        /\ (rawFn = "parse_views" /\ MalformedViews(rawText)) => rawOut.ret = 0

\* parse_views was given "1.1.1": float() raised ValueError, 0 came back
C12_Witness ==
    /\ rawPc = "done"
    /\ rawFn = "parse_views"
    /\ rawText = <<"1", ".", "1", ".", "1">>
    /\ rawOut = [ret |-> 0, exc |-> "none"]

-----------------------------------------------------------------------------
(* clean_html *)

TagAtoms == {"<b>", "</b>", "<script>", "</script>", "<style>", "</style>", "<span>", "</span>"}

EntityAtoms == {"&nbsp;", "&lt;", "&gt;", "&amp;", "&quot;", "&#39;"}

DecodeEntity(a) ==
    CASE a = "&nbsp;" -> " "
      [] a = "&lt;" -> "<"
      [] a = "&gt;" -> ">"
      [] a = "&amp;" -> "&"
      [] a = "&quot;" -> "\""
      [] a = "&#39;" -> "'"
      [] OTHER -> a

\* re.sub(r'<open[^>]*>.*?</close>', '', html): every block from an opening tag
\* to the first closing tag after it goes, content included
RECURSIVE RemoveBlocks(_, _, _)
RemoveBlocks(s, open, close) ==
    IF s = <<>> THEN <<>>
    ELSE IF Head(s) = open /\ \E i \in 2..Len(s) : s[i] = close
    THEN LET i == CHOOSE k \in 2..Len(s) : s[k] = close /\ \A j \in 2..(k - 1) : s[j] # close
         IN RemoveBlocks(SubSeq(s, i + 1, Len(s)), open, close)
    ELSE <<Head(s)>> \o RemoveBlocks(Tail(s), open, close)

\* re.sub(r'\s+', ' ', html)
RECURSIVE CollapseSpaces(_)
CollapseSpaces(s) ==
    IF Len(s) < 2 THEN s
    ELSE IF s[1] = " " /\ s[2] = " " THEN CollapseSpaces(Tail(s))
    ELSE <<Head(s)>> \o CollapseSpaces(Tail(s))

CleanHtml(html) ==
    IF html = <<>> THEN <<>>
    ELSE LET noScript == RemoveBlocks(html, "<script>", "</script>")
             noStyle == RemoveBlocks(noScript, "<style>", "</style>")
             noTags == SelectSeq(noStyle, LAMBDA a : a \notin TagAtoms)
             decoded == [i \in 1..Len(noTags) |-> DecodeEntity(noTags[i])]
         IN Strip(CollapseSpaces(decoded))

-----------------------------------------------------------------------------
(* Documents.  A document is a sequence of tokens, each a run of characters  *)
(* of a stated length:                                                     *)
(*   a       href="/watch?v=ID", what the watch-link pattern matches        *)
(*   img     <img src="SRC" alt="ALT">, src or alt possibly absent          *)
(*   title   class="card-title">TEXT<                                       *)
(*   text    characters no pattern of the code matches                      *)
(* A pattern matches a token inside a chunk only when the chunk holds the   *)
(* whole token.                                                             *)

Anchor(id) == [k |-> "a", id |-> id, len |-> 20]
Img(src, alt) == [k |-> "img", src |-> src, alt |-> alt, len |-> 30]
TitleEl(text) == [k |-> "title", text |-> text, len |-> 40]
Filler(n) == [k |-> "text", len |-> n]

RECURSIVE DocLen(_)
DocLen(html) == IF html = <<>> THEN 0 ELSE Head(html).len + DocLen(Tail(html))

\* match.start() and match.end() of the token at index j
TokStart(html, j) == DocLen(SubSeq(html, 1, j - 1))
TokEnd(html, j) == DocLen(SubSeq(html, 1, j))

\* list(pattern.finditer(html)): the indices of the watch links, in order
WatchMatches(html) ==
    LET idx == [j \in 1..Len(html) |-> j]
    IN SelectSeq(idx, LAMBDA j : html[j].k = "a")

ChunkCap == 3000

\* "user" not in title.lower()
HasUserMarker(title) == \E i \in 1..Len(title) : title[i] \in {"user", "User", "USER"}

\* what each pattern applied to a chunk matches: <img[^>]+alt="([^"]+)",
\* class="[^"]*title[^"]*"[^>]*>([^<]+)< and (?:src|data-src)="([^"]+)"
PatternHits(pattern, tok) ==
    CASE pattern = "img_alt" -> tok.k = "img" /\ tok.alt # <<>>
      [] pattern = "title_class" -> tok.k = "title" /\ tok.text # <<>>
      [] pattern = "src" -> tok.k = "img" /\ tok.src # <<>>

\* re.search(pattern, chunk) for the chunk [from, to): the index of the first
\* token the pattern matches, or 0
FirstInChunk(html, from, to, pattern) ==
    LET hits == {j \in 1..Len(html) :
                    /\ TokStart(html, j) >= from
                    /\ TokEnd(html, j) <= to
                    /\ PatternHits(pattern, html[j])}
    IN IF hits = {} THEN 0 ELSE CHOOSE j \in hits : \A h \in hits : j <= h

\* the preview built from the chunk [start_pos, chunk_end)
PreviewFromChunk(html, vid, start_pos, chunk_end) ==
    LET img_match == FirstInChunk(html, start_pos, chunk_end, "img_alt")
        alt_title == IF img_match = 0 THEN <<>> ELSE CleanHtml(html[img_match].alt)
        title1 == IF alt_title # <<>> /\ ~HasUserMarker(alt_title) THEN alt_title ELSE <<>>
        title_match == FirstInChunk(html, start_pos, chunk_end, "title_class")
        title2 == IF title1 = <<>> /\ title_match # 0
                  THEN CleanHtml(html[title_match].text)
                  ELSE title1
        thumb_match == FirstInChunk(html, start_pos, chunk_end, "src")
        thumbnail == IF thumb_match = 0 THEN <<>> ELSE html[thumb_match].src
    IN VideoPreview(vid, PStr(title2), PStr(thumbnail))

\* a chunk that runs to the end of the document whatever link follows
ChunkEndIgnoringNextLink(html, matches, i) ==
    LET start_pos == TokEnd(html, matches[i])
        end_pos == DocLen(html)
    IN IF end_pos < start_pos + ChunkCap THEN end_pos ELSE start_pos + ChunkCap

\* min(end_pos, start_pos + 3000) for the i-th watch link
ChunkEnd(html, matches, i) ==
    LET start_pos == TokEnd(html, matches[i])
        end_pos == IF i < Len(matches) THEN TokStart(html, matches[i + 1]) ELSE DocLen(html)
    IN IF end_pos < start_pos + ChunkCap THEN end_pos ELSE start_pos + ChunkCap

\* results[vid] = preview with no check that vid is already there: the value
\* of an existing key is replaced, the key keeps its place
StoreOverwriting(results, preview) ==
    IF \E r \in 1..Len(results) : results[r].video_id = preview.video_id
    THEN [r \in 1..Len(results) |->
            IF results[r].video_id = preview.video_id THEN preview ELSE results[r]]
    ELSE Append(results, preview)

\* if vid in results: continue ... results[vid] = preview
StoreFirst(results, preview) ==
    IF \E r \in 1..Len(results) : results[r].video_id = preview.video_id
    THEN results
    ELSE Append(results, preview)

\* the loop over the matches, from the i-th on; results is the dict so far,
\* in insertion order
RECURSIVE VideoListLoop(_, _, _, _)
VideoListLoop(html, matches, i, results) ==
    IF i > Len(matches) THEN results
    ELSE LET vid == html[matches[i]].id
             preview == PreviewFromChunk(html, vid, TokEnd(html, matches[i]),
                                         ChunkEnd(html, matches, i))
         IN VideoListLoop(html, matches, i + 1, StoreFirst(results, preview))

\* the whole list, whatever the limit
ParseVideoListUnlimited(html, limit) ==
    VideoListLoop(html, WatchMatches(html), 1, <<>>)

\* limit >= 0
ParseVideoList(html, limit) ==
    Prefix(VideoListLoop(html, WatchMatches(html), 1, <<>>), limit)

-----------------------------------------------------------------------------
(* Script elements.  A script token is one <script> element that holds one  *)
(* payload:                                                                 *)
(*   form   nuxt_data      <script id="__NUXT_DATA__" ...>PAYLOAD</script>  *)
(*          window_nuxt    window.__NUXT__=PAYLOAD                          *)
(*          bare_nuxt      __NUXT__=PAYLOAD not preceded by "window."       *)
(*          nuxt_state     window.__NUXT__.state=PAYLOAD                    *)
(*          initial_state  window.__INITIAL_STATE__=PAYLOAD                 *)
(*          var_data       var videos = PAYLOAD                             *)
(*          ld_json        <script type="application/ld+json">PAYLOAD       *)
(*   shape  "object" ({...}) or "array" ([...])                             *)
(*   wf     how json.loads takes the payload: "ok"; "bad", a syntax error;  *)
(*          "undef", valid but for the bare literal undefined; "deep",      *)
(*          nested deeper than the interpreter's recursion limit            *)
(*   val    the value of the payload (for "undef": with null for undefined) *)
(*   tail   what stands between the payload and </script>: "", ";" or       *)
(*          "code}", a ";" and further statements that end in "}"           *)

Script(form, shape, wf, val, tail) ==
    [k |-> "script", form |-> form, shape |-> shape, wf |-> wf, val |-> val,
     tail |-> tail, len |-> 100]

\* a captured fragment: the text handed to json.loads
Frag(wf, val) == [wf |-> wf, val |-> val]

\* the payload with statements after it: no JSON text
Blob == Frag("bad", PNull)

\* the capture group of one pattern on one token, as a list of zero or one
\* fragment
PatternCapture(pattern, tok) ==
    IF tok.k # "script" THEN <<>>
    ELSE LET payload == Frag(tok.wf, tok.val)
             object == tok.shape = "object"
         IN CASE pattern = "nuxt_data" ->
                   \* <script[^>]+id=["\']__NUXT_DATA__["\'][^>]*>(.+?)</script>
                   IF tok.form = "nuxt_data"
                   THEN (IF tok.tail = "" THEN <<payload>> ELSE <<Blob>>)
                   ELSE <<>>
              [] pattern = "n_window" ->
                   \* window\.__NUXT__\s*=\s*(\{.+?\})(?:;|\s*</script>)
                   IF tok.form = "window_nuxt" /\ object THEN <<payload>> ELSE <<>>
              [] pattern = "n_bare" ->
                   \* __NUXT__\s*=\s*(\{.+?\})(?:;|\s*</script>)
                   IF tok.form \in {"window_nuxt", "bare_nuxt"} /\ object
                   THEN <<payload>> ELSE <<>>
              [] pattern = "n_state" ->
                   \* window\.__NUXT__\.state\s*=\s*(\{.+?\})(?:;|\s*</script>)
                   IF tok.form = "nuxt_state" /\ object THEN <<payload>> ELSE <<>>
              [] pattern = "e_nuxt" ->
                   \* window\.__NUXT__\s*=\s*(\{.+?\});?\s*</script>
                   IF tok.form = "window_nuxt" /\ object
                   THEN (IF tok.tail \in {"", ";"} THEN <<payload>> ELSE <<Blob>>)
                   ELSE <<>>
              [] pattern = "e_initial" ->
                   \* window\.__INITIAL_STATE__\s*=\s*(\{.+?\});?\s*</script>
                   IF tok.form = "initial_state" /\ object
                   THEN (IF tok.tail \in {"", ";"} THEN <<payload>> ELSE <<Blob>>)
                   ELSE <<>>
              [] pattern = "e_var" ->
                   \* <script[^>]*>\s*var\s+(?:videos?|data)\s*=\s*(\[.+?\]);\s*</script>
                   IF tok.form = "var_data" /\ ~object /\ tok.tail = ";"
                   THEN <<payload>> ELSE <<>>
              [] pattern = "e_ld" ->
                   \* <script[^>]+type="application/ld\+json"[^>]*>(\{.+?\})</script>
                   IF tok.form = "ld_json" /\ object /\ tok.tail = ""
                   THEN <<payload>> ELSE <<>>

\* re.findall(pattern, html): the captures in document order
Captures(pattern, html) ==
    Flatten([j \in 1..Len(html) |-> PatternCapture(pattern, html[j])])

\* json.loads(text): the value, or the exception it raises.  RecursionError is
\* not a JSONDecodeError.
JsonLoads(frag) ==
    CASE frag.wf = "ok" -> [exc |-> "none", val |-> frag.val]
      [] frag.wf = "deep" -> [exc |-> "RecursionError", val |-> PNull]
      [] OTHER -> [exc |-> "JSONDecodeError", val |-> PNull]

\* re.sub(r'\bundefined\b', 'null', js_obj)
FixJsObject(frag) == IF frag.wf = "undef" THEN Frag("ok", frag.val) ELSE frag

\* what a call returns: a value, or an exception that leaves it
Returned(ret) == [ret |-> ret, exc |-> "none"]
Raised(exc) == [ret |-> <<>>, exc |-> exc]

EmbeddedPatterns == <<"e_nuxt", "e_initial", "e_var", "e_ld">>

\* the two nested loops of _parse_embedded_json over the fragments still to
\* come, in pattern-then-match order
RECURSIVE EmbeddedLoop(_, _, _)
EmbeddedLoop(frags, results, limit) ==
    IF frags = <<>>
    THEN Returned(IF results # <<>> THEN Prefix(results, limit) ELSE <<>>)
    ELSE LET loaded == JsonLoads(Head(frags))
             videos == ExtractVideosFromJson(loaded.val, DefaultMaxDepth)
         IN IF loaded.exc = "JSONDecodeError"
            THEN EmbeddedLoop(Tail(frags), results, limit)
            ELSE IF loaded.exc # "none"
            THEN Raised(loaded.exc)
            ELSE IF videos # <<>> /\ Len(results \o videos) >= limit
            THEN Returned(Prefix(results \o videos, limit))
            ELSE EmbeddedLoop(Tail(frags), results \o videos, limit)

ParseEmbeddedJson(html, limit) ==
    EmbeddedLoop(Flatten([p \in 1..Len(EmbeddedPatterns) |->
                            Captures(EmbeddedPatterns[p], html)]),
                 <<>>, limit)

NuxtPatterns == <<"n_window", "n_bare", "n_state">>

\* the first loop of _parse_nuxt_payload: no repair, except json.JSONDecodeError
RECURSIVE NuxtDataLoop(_, _)
NuxtDataLoop(frags, results) ==
    IF frags = <<>> THEN Returned(results)
    ELSE LET loaded == JsonLoads(Head(frags))
         IN IF loaded.exc = "JSONDecodeError"
            THEN NuxtDataLoop(Tail(frags), results)
            ELSE IF loaded.exc # "none"
            THEN Raised(loaded.exc)
            ELSE NuxtDataLoop(Tail(frags),
                              results \o ExtractVideosFromJson(loaded.val, DefaultMaxDepth))

\* the second loop: repair, except (json.JSONDecodeError, Exception)
RECURSIVE NuxtVarLoop(_, _)
NuxtVarLoop(frags, results) ==
    IF frags = <<>> THEN results
    ELSE LET loaded == JsonLoads(FixJsObject(Head(frags)))
         IN IF loaded.exc # "none"
            THEN NuxtVarLoop(Tail(frags), results)
            ELSE NuxtVarLoop(Tail(frags),
                             results \o ExtractVideosFromJson(loaded.val, DefaultMaxDepth))

ParseNuxtPayload(html, limit) ==
    LET first == NuxtDataLoop(Captures("nuxt_data", html), <<>>)
        results == NuxtVarLoop(Flatten([p \in 1..Len(NuxtPatterns) |->
                                          Captures(NuxtPatterns[p], html)]),
                               first.ret)
    IN IF first.exc # "none" THEN first
       ELSE Returned(IF results # <<>> THEN Prefix(results, limit) ELSE <<>>)

-----------------------------------------------------------------------------
(* The embedded-data extractors on the documents of at most MaxFragments    *)
(* script elements *)

MaxFragments == 3

\* the limit argument ranges over 0..MaxLimit
MaxLimit == 2

\* {"videos": [record, ...]}
VideosObject(ids) == PDict(<< <<"videos", PList([i \in 1..Len(ids) |-> LeafRecord(ids[i])])>> >>)

ScriptTokens ==
    { Script("window_nuxt", "object", "ok", VideosObject(<<1, 2>>), ";"),
      Script("window_nuxt", "object", "undef", VideosObject(<<3>>), ""),
      Script("window_nuxt", "object", "bad", PNull, ";"),
      Script("window_nuxt", "object", "ok", VideosObject(<<4>>), "code}"),
      Script("window_nuxt", "object", "deep", PNull, ";"),
      Script("bare_nuxt", "object", "ok", VideosObject(<<5>>), ";"),
      Script("nuxt_state", "object", "ok", VideosObject(<<6>>), ";"),
      Script("initial_state", "object", "ok", VideosObject(<<7, 1>>), ";"),
      Script("var_data", "array", "ok", PList(<<LeafRecord(8)>>), ";"),
      Script("ld_json", "object", "ok", LeafRecord(9), ""),
      Script("nuxt_data", "array", "ok", PList(<<LeafRecord(10), LeafRecord(11)>>), ""),
      Script("nuxt_data", "array", "bad", PNull, ""),
      Script("nuxt_data", "array", "deep", PNull, "") }

ScriptDocs == UNION {[1..n -> ScriptTokens] : n \in 0..MaxFragments}

ExInit ==
    /\ exHtml \in ScriptDocs
    /\ exLimit \in 0..MaxLimit
    /\ exWhich = "none"
    /\ exOut = Returned(<<>>)
    /\ exPc = "ready"

ExIdle ==
    /\ exHtml = <<>>
    /\ exLimit = 0
    /\ exWhich = "none"
    /\ exOut = Returned(<<>>)
    /\ exPc = "off"

\* self._parse_embedded_json(html, limit)
DoParseEmbeddedJson ==
    /\ exPc = "ready"
    /\ exWhich' = "embedded"
    /\ exOut' = ParseEmbeddedJson(exHtml, exLimit)
    /\ exPc' = "done"
    /\ UNCHANGED <<exHtml, exLimit>>
    /\ UNCHANGED notEx

\* self._parse_nuxt_payload(html, limit)
DoParseNuxtPayload ==
    /\ exPc = "ready"
    /\ exWhich' = "nuxt"
    /\ exOut' = ParseNuxtPayload(exHtml, exLimit)
    /\ exPc' = "done"
    /\ UNCHANGED <<exHtml, exLimit>>
    /\ UNCHANGED notEx

ExNext == DoParseEmbeddedJson \/ DoParseNuxtPayload

\* the fragments an extractor matches, in pattern-then-match order, each with
\* the text its parse attempt is made on
AttemptedFragments(which, html) ==
    IF which = "embedded"
    THEN Flatten([p \in 1..Len(EmbeddedPatterns) |-> Captures(EmbeddedPatterns[p], html)])
    ELSE Captures("nuxt_data", html) \o
         LET repaired == Flatten([p \in 1..Len(NuxtPatterns) |->
                                    Captures(NuxtPatterns[p], html)])
         IN [i \in 1..Len(repaired) |-> FixJsObject(repaired[i])]

\* the records of the fragments that parse, concatenated
RecordsOfWellFormed(frags) ==
    Flatten([i \in 1..Len(frags) |->
               IF frags[i].wf = "ok"
               THEN ExtractVideosFromJson(frags[i].val, DefaultMaxDepth)
               ELSE <<>>])

\* C7: in both embedded-data extractors a matched fragment that fails to parse
\* contributes nothing, raises nothing to the caller and does not stop the
\* processing of the other fragments: the result is the concatenation, in
\* pattern-then-match order, of the records of the well-formed fragments,
\* truncated to limit.
C7_MalformedSkipped ==
    exPc = "done" =>
        /\ exOut.exc = "none"
        /\ exOut.ret = Prefix(RecordsOfWellFormed(AttemptedFragments(exWhich, exHtml)), exLimit)

\* the same for documents none of whose fragments is nested beyond the
\* recursion limit: a syntax error is skipped and the rest is processed
C7_SyntaxErrorsSkipped ==
    (exPc = "done" /\ \A j \in 1..Len(exHtml) : exHtml[j].wf # "deep") =>
        /\ exOut.exc = "none"
        /\ exOut.ret = Prefix(RecordsOfWellFormed(AttemptedFragments(exWhich, exHtml)), exLimit)

-----------------------------------------------------------------------------
(* Video: the detail document and Video.fetch *)

\* detail-page tokens: <h3 class="video-details-title">TEXT</h3> and
\* <title>TEXT</title>
H3Title(text) == [k |-> "h3", text |-> text, len |-> 60]
TitleTag(text) == [k |-> "titletag", text |-> text, len |-> 30]

\* re.sub(r'\s*[-|]\s*Hanime1.*$', '', title): the text before the leftmost
\* separator that the site name follows
SiteSuffixAt(title, i) ==
    \E d \in i..Len(title) :
        /\ \A j \in i..(d - 1) : title[j] = " "
        /\ title[d] \in {"-", "|"}
        /\ \E h \in (d + 1)..Len(title) :
              /\ \A j \in (d + 1)..(h - 1) : title[j] = " "
              /\ title[h] \in {"Hanime1", "hanime1"}

RemoveSiteSuffix(title) ==
    IF \E i \in 1..Len(title) : SiteSuffixAt(title, i)
    THEN LET i == CHOOSE k \in 1..Len(title) :
                    SiteSuffixAt(title, k) /\ \A j \in 1..(k - 1) : ~SiteSuffixAt(title, j)
         IN SubSeq(title, 1, i - 1)
    ELSE title

\* the index of the first token of the kind with a non-empty text, or 0
FirstToken(html, kind) ==
    LET hits == {j \in 1..Len(html) : html[j].k = kind /\ html[j].text # <<>>}
    IN IF hits = {} THEN 0 ELSE CHOOSE j \in hits : \A h \in hits : j <= h

ExtractTitle(html) ==
    IF FirstToken(html, "h3") # 0
    THEN CleanHtml(html[FirstToken(html, "h3")].text)
    ELSE IF FirstToken(html, "titletag") # 0
    THEN RemoveSiteSuffix(CleanHtml(html[FirstToken(html, "titletag")].text))
    ELSE <<>>

(* The other elements of a detail page.  A token is one match of one of the *)
(* patterns of an extractor: k names the pattern, text is the group the     *)
(* code reads.  The documents drawn keep the matches apart: no text of one  *)
(* token matches the pattern of another extractor.                          *)
PatternEl(k, text) == [k |-> k, text |-> text, len |-> 40]

\* the index of the first token of the kind, or 0
FirstOfKind(html, kind) ==
    IF \E j \in 1..Len(html) : html[j].k = kind
    THEN CHOOSE j \in 1..Len(html) : html[j].k = kind /\ \A h \in 1..(j - 1) : html[h].k # kind
    ELSE 0

\* the patterns are searched one after another, each over the whole document:
\* the index of the first match of the first pattern that has one, or 0
RECURSIVE FirstByPatterns(_, _)
FirstByPatterns(html, kinds) ==
    IF kinds = <<>> THEN 0
    ELSE IF FirstOfKind(html, Head(kinds)) # 0 THEN FirstOfKind(html, Head(kinds))
    ELSE FirstByPatterns(html, Tail(kinds))

\* REGEX_VIDEO_VIEWS, REGEX_VIDEO_VIEWS_ALT, then the four patterns of the list
ViewsPatterns ==
    <<"views", "views_alt", "views_wan_ci", "views_ci", "views_watch", "views_en">>

\* _extract_views: parse_views(match.group(0)); an exception of parse_views
\* leaves it
ExtractViews(html) ==
    IF FirstByPatterns(html, ViewsPatterns) = 0 THEN [ret |-> 0, exc |-> "none"]
    ELSE ParseViewsOutcome(html[FirstByPatterns(html, ViewsPatterns)].text)

\* _extract_upload_date
ExtractUploadDate(html) ==
    IF FirstOfKind(html, "date") = 0 THEN <<>> ELSE html[FirstOfKind(html, "date")].text

\* the three patterns of _extract_duration, then REGEX_VIDEO_DURATION
DurationPatterns == <<"duration_attr", "duration_span", "duration_label", "duration_bare">>

ExtractDuration(html) ==
    IF FirstByPatterns(html, DurationPatterns) = 0 THEN 0
    ELSE ParseDuration(html[FirstByPatterns(html, DurationPatterns)].text)

\* REGEX_THUMBNAIL_ALT, REGEX_THUMBNAIL_ALT2, REGEX_THUMBNAIL, then the list
ThumbnailPatterns ==
    <<"og_image", "og_image_rev", "poster", "player_cover", "cover_img", "data_poster">>

ExtractThumbnail(html) ==
    IF FirstByPatterns(html, ThumbnailPatterns) = 0 THEN <<>>
    ELSE html[FirstByPatterns(html, ThumbnailPatterns)].text

\* the sentinel of _extract_uploader, one atom for its five characters
UnknownUploader == <<"unknown_uploader">>

\* the atoms "zh_sub" and "uncensored" stand for the two markers a bracket
\* prefix is rejected for
NotAnArtist(name) == \E i \in 1..Len(name) : name[i] \in {"zh_sub", "uncensored"}

\* strategy 3: the name after Brand / Circle / Artist, returned as it is
UploaderOfBrand(html) ==
    IF FirstOfKind(html, "brand") # 0
    THEN CleanHtml(html[FirstOfKind(html, "brand")].text)
    ELSE UnknownUploader

\* strategy 2: the bracket prefix of the share title
UploaderOfShareTitle(html) ==
    IF /\ FirstOfKind(html, "share") # 0
       /\ CleanHtml(html[FirstOfKind(html, "share")].text) # <<>>
       /\ ~NotAnArtist(CleanHtml(html[FirstOfKind(html, "share")].text))
    THEN CleanHtml(html[FirstOfKind(html, "share")].text)
    ELSE UploaderOfBrand(html)

\* _extract_uploader; strategy 1 is the element with id="video-artist-name"
ExtractUploader(html) ==
    IF html = <<>> THEN UnknownUploader
    ELSE IF /\ FirstOfKind(html, "artist") # 0
            /\ CleanHtml(html[FirstOfKind(html, "artist")].text) # <<>>
    THEN CleanHtml(html[FirstOfKind(html, "artist")].text)
    ELSE UploaderOfShareTitle(html)

(* Tags.  The atoms of a tag text, in the order of their first characters'  *)
(* code points; no atom is the beginning of another, so the order of two   *)
(* texts is the order of their first differing atoms.  "x50" is a run of   *)
(* 50 letters x; the atoms after it stand for the denylist's entries       *)
(* written in Chinese characters.                                          *)
CodePointOrder ==
    <<" ", "#", "&", "1080p", "A", "B", "HD", "Hanime1", "h_dongman", "x50",
      "mianfei", "dengru", "xianshangkan", "zhuce">>

AtomRank(a) == CHOOSE i \in 1..Len(CodePointOrder) : CodePointOrder[i] = a

\* a < b for Python strings
RECURSIVE StrLess(_, _)
StrLess(a, b) ==
    IF b = <<>> THEN FALSE
    ELSE IF a = <<>> THEN TRUE
    ELSE IF Head(a) # Head(b) THEN AtomRank(Head(a)) < AtomRank(Head(b))
    ELSE StrLess(Tail(a), Tail(b))

\* len(text)
RECURSIVE CharCount(_)
CharCount(text) ==
    IF text = <<>> THEN 0
    ELSE CharCount(Tail(text)) +
         (CASE Head(text) = "x50" -> 50
            [] Head(text) = "Hanime1" -> 7
            [] Head(text) = "1080p" -> 5
            [] Head(text) \in {"h_dongman", "xianshangkan"} -> 3
            [] Head(text) \in {"HD", "mianfei", "dengru", "zhuce"} -> 2
            [] OTHER -> 1)

MaxTagLength == 50

Blacklist ==
    {<<"Hanime1">>, <<"h_dongman">>, <<"xianshangkan">>, <<"mianfei">>, <<"1080p">>,
     <<"HD">>, <<"dengru">>, <<"zhuce">>}

\* strategy 1: <meta property="article:tag" content="TEXT">
MetaTags(html) ==
    {CleanHtml(html[j].text) : j \in {i \in 1..Len(html) : html[i].k = "meta_tag"}} \ {<<>>}

\* the text of a tag link without its <span> elements, cleaned
TagLinkText(raw) == CleanHtml(RemoveBlocks(raw, "<span>", "</span>"))

\* strategy 2: the link inside an element of class "single-video-tag"
ClassTags(html) ==
    {t \in {TagLinkText(html[j].text) : j \in {i \in 1..Len(html) : html[i].k = "tag_div"}} :
        t # <<>> /\ CharCount(t) < MaxTagLength}

\* sorted(list(tags))
RECURSIVE SortedList(_)
SortedList(tags) ==
    IF tags = {} THEN <<>>
    ELSE <<CHOOSE m \in tags : \A t \in tags : t = m \/ StrLess(m, t)>> \o
         SortedList(tags \ {CHOOSE m \in tags : \A t \in tags : t = m \/ StrLess(m, t)})

\* the tags with the denylist left in
ExtractTagsKeepingDenylist(html) ==
    IF html = <<>> THEN <<>>
    ELSE SortedList(MetaTags(html) \cup ClassTags(html))

ExtractTags(html) ==
    IF html = <<>> THEN <<>>
    ELSE SortedList((MetaTags(html) \cup ClassTags(html)) \ Blacklist)

(* Video sources.  The atoms "bs_slash" and "bs_u002F" stand for the        *)
(* escapes \/ and /, "http://" for the scheme the patterns ask for.    *)

\* url.encode('utf-8').decode('unicode_escape'): \/ is no escape and stays
UnicodeUnescape(url) == [i \in 1..Len(url) |-> IF url[i] = "bs_u002F" THEN "/" ELSE url[i]]

\* url.replace(r'\/', '/') and html.unescape(url)
CleanUrl(url) ==
    [i \in 1..Len(url) |-> IF url[i] = "bs_slash" THEN "/" ELSE DecodeEntity(url[i])]

\* phase 1: quoted absolute links, .m3u8 before .mp4
QuotedUrlPatterns == <<"m3u8_dq", "m3u8_sq", "m3u8_js", "mp4_dq", "mp4_sq">>

\* phase 2: REGEX_VIDEO_SOURCE, REGEX_VIDEO_SOURCE_ALT, REGEX_VIDEO_MP4
FallbackUrlPatterns == <<"src_m3u8", "m3u8_bare", "mp4_bare">>

ExtractVideoUrl(html) ==
    IF html = <<>> THEN <<>>
    ELSE IF FirstByPatterns(html, QuotedUrlPatterns) # 0
    THEN CleanUrl(UnicodeUnescape(html[FirstByPatterns(html, QuotedUrlPatterns)].text))
    ELSE IF FirstByPatterns(html, FallbackUrlPatterns) # 0
    THEN CleanUrl(html[FirstByPatterns(html, FallbackUrlPatterns)].text)
    ELSE <<>>

\* Video(video_id=video_id)
NewVideo(video_id) ==
    [video_id |-> video_id, title |-> <<>>, views |-> 0, duration |-> 0,
     upload_date |-> <<>>, thumbnail |-> <<>>, uploader |-> <<>>, tags |-> <<>>,
     video_url |-> <<>>, html_content |-> <<>>, fetched |-> FALSE]

\* _parse_html: nothing is done for an empty document; the fields are assigned
\* one after another, so an exception of _extract_views leaves the title
\* assigned and the rest as it was
ParseHtmlOutcome(video) ==
    IF video.html_content = <<>> THEN [video |-> video, exc |-> "none"]
    ELSE IF ExtractViews(video.html_content).exc # "none"
    THEN [video |-> [video EXCEPT !.title = ExtractTitle(video.html_content)],
          exc |-> ExtractViews(video.html_content).exc]
    ELSE [video |-> [video EXCEPT !.title = ExtractTitle(video.html_content),
                                  !.views = ExtractViews(video.html_content).ret,
                                  !.upload_date = ExtractUploadDate(video.html_content),
                                  !.duration = ExtractDuration(video.html_content),
                                  !.thumbnail = ExtractThumbnail(video.html_content),
                                  !.uploader = ExtractUploader(video.html_content),
                                  !.tags = ExtractTags(video.html_content),
                                  !.video_url = ExtractVideoUrl(video.html_content)],
          exc |-> "none"]

ParseHtml(video) == ParseHtmlOutcome(video).video

(* What a request ends with:                                               *)
(*   [kind |-> "status", status, body]   a response                        *)
(*   [kind |-> "timeout"]                asyncio.TimeoutError               *)
(*   [kind |-> "error"]                  a transport exception              *)
(*   [kind |-> "closed"]                 the exception of a request whose   *)
(*                                       session was closed under it        *)

Response(status, body) == [kind |-> "status", status |-> status, body |-> body]
Failure(kind) == [kind |-> kind, status |-> 0, body |-> <<>>]

\* self._html_content = await response.text(); self._fetched = True
Received(video, resp) == [video EXCEPT !.html_content = resp.body, !.fetched = TRUE]

\* a fetch with no except clause: the exception of the request, or of
\* _parse_html, leaves fetch
VideoFetchUncaught(video, resp) ==
    IF resp.kind # "status"
    THEN [success |-> FALSE, video |-> video, exc |-> resp.kind]
    ELSE IF resp.status # 200
    THEN [success |-> FALSE, video |-> video, exc |-> "none"]
    ELSE IF ParseHtmlOutcome(Received(video, resp)).exc # "none"
    THEN [success |-> FALSE, video |-> ParseHtml(Received(video, resp)),
          exc |-> ParseHtmlOutcome(Received(video, resp)).exc]
    ELSE [success |-> TRUE, video |-> ParseHtml(Received(video, resp)), exc |-> "none"]

\* Video.fetch with the session passed in: every exception of the request and
\* of _parse_html is caught and gives False
VideoFetch(video, resp) ==
    IF resp.kind # "status"
    THEN [success |-> FALSE, video |-> video, exc |-> "none"]
    ELSE IF resp.status # 200
    THEN [success |-> FALSE, video |-> video, exc |-> "none"]
    ELSE IF ParseHtmlOutcome(Received(video, resp)).exc # "none"
    THEN [success |-> FALSE, video |-> ParseHtml(Received(video, resp)), exc |-> "none"]
    ELSE [success |-> TRUE, video |-> ParseHtml(Received(video, resp)), exc |-> "none"]

-----------------------------------------------------------------------------
(* Video.fetch answered 200 with a document of at most MaxDetailTokens      *)
(* matches.                                                                *)

MaxDetailTokens == 3

DetailTokens ==
    { H3Title(<<"T">>),
      PatternEl("views", <<"1", ".", "5", "wan">>),
      PatternEl("views_en", <<HugeRun>>),
      PatternEl("date", <<"2026-01-16">>),
      PatternEl("duration_attr", <<"1", ":", "0", "5">>),
      PatternEl("og_image", <<"cover.jpg">>),
      PatternEl("artist", <<"A">>),
      PatternEl("artist", <<"&nbsp;">>),
      PatternEl("share", <<"B">>),
      PatternEl("share", <<"zh_sub">>),
      PatternEl("brand", <<"B", " ">>),
      PatternEl("brand", <<" ">>),
      PatternEl("meta_tag", <<"B">>),
      PatternEl("meta_tag", <<"HD">>),
      PatternEl("meta_tag", <<"x50">>),
      PatternEl("tag_div", <<"<span>", "#", "</span>", "&nbsp;", "B">>),
      PatternEl("tag_div", <<"A", "&nbsp;", "<span>", "#", "</span>">>),
      PatternEl("tag_div", <<"x50">>),
      PatternEl("tag_div", <<"Hanime1">>),
      PatternEl("m3u8_sq", <<"http://", "a", "bs_slash", "v.m3u8", "&amp;", "bs_u002F">>),
      PatternEl("mp4_dq", <<"http://", "a", "/", "v.mp4">>),
      PatternEl("src_m3u8", <<"/", "v.m3u8">>) }

DetailPages == UNION {[1..n -> DetailTokens] : n \in 0..MaxDetailTokens}

\* fetch returned True / False
BoolText(b) == IF b THEN "true" ELSE "false"

DetInit ==
    /\ detHtml \in DetailPages
    /\ detVideo = NewVideo(Digits(1))
    /\ detRet = "none"
    /\ detPc = "ready"

DetIdle ==
    /\ detHtml = <<>>
    /\ detVideo = NewVideo(<<>>)
    /\ detRet = "none"
    /\ detPc = "off"

DoFetchDetail ==
    /\ detPc = "ready"
    /\ \E f \in {VideoFetch(detVideo, Response(200, detHtml))} :
          /\ detVideo' = f.video
          /\ detRet' = BoolText(f.success)
    /\ detPc' = "done"
    /\ UNCHANGED detHtml
    /\ UNCHANGED notDet

DetNext == DoFetchDetail

-----------------------------------------------------------------------------
(* One Video object: made by the constructor or by VideoPreview.to_video,   *)
(* then fetched again and again, at most MaxFetches times in all.           *)

MaxFetches == 2

VideoPages ==
    { <<>>,
      <<Filler(10)>>,
      <<H3Title(<<"T">>), PatternEl("views", <<"1", ".", "5", "wan">>),
        PatternEl("date", <<"2026-01-16">>), PatternEl("duration_attr", <<"1", ":", "0", "5">>),
        PatternEl("og_image", <<"cover.jpg">>), PatternEl("artist", <<"A">>),
        PatternEl("meta_tag", <<"B">>), PatternEl("mp4_dq", <<"http://", "a", "/", "v.mp4">>)>>,
      <<H3Title(<<"U">>), PatternEl("views_en", <<"7">>)>>,
      <<H3Title(<<"U">>), PatternEl("views_en", <<HugeRun>>), PatternEl("artist", <<"A">>)>> }

VideoEndings ==
    {Response(200, d) : d \in VideoPages}
    \cup {Response(404, <<>>), Failure("timeout"), Failure("error")}

PreviewsToUpgrade ==
    { VideoPreview(Digits(7), PStr(<<"P">>), PStr(<<"thumb.jpg">>)),
      VideoPreview(Digits(12345), PStr(<<>>), PStr(<<>>)) }

\* to_video up to the fetch: Video(video_id=self.video_id) with the preview's
\* title, thumbnail, duration and views copied in
VideoOfPreview(preview) ==
    [NewVideo(preview.video_id) EXCEPT !.title = preview.title.v,
                                       !.thumbnail = preview.thumbnail.v,
                                       !.duration = ParseDuration(<<>>),
                                       !.views = ParseViews(<<>>)]

\* to_video: one fetch whose result is dropped; the Video is returned
ToVideo(preview, resp) == VideoFetch(VideoOfPreview(preview), resp).video

NoPreview == VideoPreview(<<>>, PStr(<<>>), PStr(<<>>))

VidInit ==
    /\ vidObj \in {NewVideo(Digits(1)), NewVideo(Digits(12345))}
    /\ vidOrigin = "constructor"
    /\ vidPreview = NoPreview
    /\ vidBefore = vidObj
    /\ vidResp = Failure("none")
    /\ vidRet = "none"
    /\ vidRequests = <<>>

VidIdle ==
    /\ vidObj = NewVideo(<<>>)
    /\ vidOrigin = "off"
    /\ vidPreview = NoPreview
    /\ vidBefore = NewVideo(<<>>)
    /\ vidResp = Failure("none")
    /\ vidRet = "none"
    /\ vidRequests = <<>>

\* preview.to_video(session): the Video of this part is the one it returns
DoToVideo ==
    /\ vidOrigin = "constructor" /\ vidRequests = <<>>
    /\ \E preview \in PreviewsToUpgrade, resp \in VideoEndings :
          /\ vidPreview' = preview
          /\ vidBefore' = VideoOfPreview(preview)
          /\ vidResp' = resp
          /\ vidObj' = ToVideo(preview, resp)
          /\ vidRet' = BoolText(VideoFetch(VideoOfPreview(preview), resp).success)
          /\ vidRequests' = <<VideoOfPreview(preview).video_id>>
    /\ vidOrigin' = "to_video"
    /\ UNCHANGED notVid

\* video.fetch(session)
DoFetch ==
    /\ vidOrigin \in {"constructor", "to_video"}
    /\ Len(vidRequests) < MaxFetches
    /\ \E resp \in VideoEndings :
          \E f \in {VideoFetch(vidObj, resp)} :
             /\ vidObj' = f.video
             /\ vidRet' = BoolText(f.success)
             /\ vidResp' = resp
    /\ vidBefore' = vidObj
    /\ vidRequests' = Append(vidRequests, vidObj.video_id)
    /\ UNCHANGED <<vidOrigin, vidPreview>>
    /\ UNCHANGED notVid

VidNext == DoToVideo \/ DoFetch

-----------------------------------------------------------------------------
(* Video.fetch and download_image: the session of the call.  A call is      *)
(* followed through its suspension points: entry, the request, the finally  *)
(* clause.  A request ends with a response, with an exception of the        *)
(* Exception family, or with the cancellation of the task                   *)
(* (asyncio.CancelledError, which `except Exception` does not catch).       *)

\* at most MaxOwnCalls calls one after another
MaxOwnCalls == 2

Cancelled == Failure("cancelled")

ImageEndings ==
    {Response(200, <<"png">>), Response(200, <<>>), Response(404, <<>>),
     Failure("timeout"), Failure("error"), Cancelled}

FetchEndings == VideoEndings \cup {Cancelled}

\* the try statement of Video.fetch without its finally clause
FetchTry(video, resp) ==
    IF resp = Cancelled THEN [ret |-> "none", exc |-> "CancelledError"]
    ELSE [ret |-> BoolText(VideoFetch(video, resp).success), exc |-> "none"]

\* the try statement of download_image without its finally clause
DownloadTry(resp) ==
    IF resp = Cancelled THEN [ret |-> "none", exc |-> "CancelledError"]
    ELSE IF resp.kind = "status" /\ resp.status = 200
    THEN [ret |-> <<"bytes">> \o resp.body, exc |-> "none"]
    ELSE [ret |-> "None", exc |-> "none"]

\* the session is closed whenever the call ends
FinallyClosingAlways(close_session, sess) == "closed"

\* finally: if close_session: await session.close()
Finally(close_session, sess) == IF close_session THEN "closed" ELSE sess

Pending == [ret |-> "none", exc |-> "none"]

OwnInit ==
    /\ ownFn = "none"
    /\ ownArg = "none"
    /\ ownUrl = <<>>
    /\ ownPc = "idle"
    /\ ownSess = "none"
    /\ ownFlag = FALSE
    /\ ownResp = Failure("none")
    /\ ownOut = Pending
    /\ ownCalls = 0

OwnIdle ==
    /\ ownFn = "none"
    /\ ownArg = "none"
    /\ ownUrl = <<>>
    /\ ownPc = "off"
    /\ ownSess = "none"
    /\ ownFlag = FALSE
    /\ ownResp = Failure("none")
    /\ ownOut = Pending
    /\ ownCalls = 0

\* video.fetch(session) or download_image(url, session) is called
OwnCall ==
    /\ ownPc \in {"idle", "returned"}
    /\ ownCalls < MaxOwnCalls
    /\ \E fn \in {"fetch", "download_image"}, arg \in {"none", "open"} :
          /\ ownFn' = fn
          /\ ownArg' = arg
          /\ ownSess' = arg
    /\ ownUrl' \in (IF ownFn' = "fetch" THEN {<<"watch">>} ELSE {<<>>, <<"img">>})
    /\ ownPc' = "called"
    /\ ownFlag' = FALSE
    /\ ownResp' = Failure("none")
    /\ ownOut' = Pending
    /\ ownCalls' = ownCalls + 1
    /\ UNCHANGED notOwn

\* download_image: if not url: return None
OwnNoUrl ==
    /\ ownPc = "called" /\ ownFn = "download_image" /\ ownUrl = <<>>
    /\ ownOut' = [ret |-> "None", exc |-> "none"]
    /\ ownPc' = "returned"
    /\ UNCHANGED <<ownFn, ownArg, ownUrl, ownSess, ownFlag, ownResp, ownCalls>>
    /\ UNCHANGED notOwn

\* close_session = False; if session is None: a session is made and
\* close_session = True; the request is sent
OwnEnter ==
    /\ ownPc = "called" /\ ownUrl # <<>>
    /\ ownSess' = (IF ownSess = "none" THEN "open" ELSE ownSess)
    /\ ownFlag' = (ownSess = "none")
    /\ ownPc' = "requesting"
    /\ UNCHANGED <<ownFn, ownArg, ownUrl, ownResp, ownOut, ownCalls>>
    /\ UNCHANGED notOwn

\* the request ends and the try statement runs up to its finally clause
OwnRequestEnds ==
    /\ ownPc = "requesting"
    /\ \/ /\ ownFn = "fetch"
          /\ \E resp \in FetchEndings :
                /\ ownResp' = resp
                /\ ownOut' = FetchTry(NewVideo(Digits(1)), resp)
       \/ /\ ownFn = "download_image"
          /\ \E resp \in ImageEndings :
                /\ ownResp' = resp
                /\ ownOut' = DownloadTry(resp)
    /\ ownPc' = "finally"
    /\ UNCHANGED <<ownFn, ownArg, ownUrl, ownSess, ownFlag, ownCalls>>
    /\ UNCHANGED notOwn

\* the finally clause, then the return (or the exception leaves the call)
OwnFinally ==
    /\ ownPc = "finally"
    /\ ownSess' = Finally(ownFlag, ownSess)
    /\ ownPc' = "returned"
    /\ UNCHANGED <<ownFn, ownArg, ownUrl, ownFlag, ownResp, ownOut, ownCalls>>
    /\ UNCHANGED notOwn

OwnNext == OwnCall \/ OwnNoUrl \/ OwnEnter \/ OwnRequestEnds \/ OwnFinally

-----------------------------------------------------------------------------
(* The commands and the cache directory (src/main.py).  Every handler is a  *)
(* coroutine of one event loop: a step is the code between two awaits.  A   *)
(* handler hands its result over with yield; the image of a chain result is *)
(* a path (Image.fromFileSystem), read when the result is sent.             *)

\* at most MaxCommands commands are handled at the same time
MaxCommands == 2

CommandIds == 1..MaxCommands

\* the video ids asked for: f"{video_id}_thumb.jpg" names the file
ThumbIds == {Digits(1), Digits(2)}

Images == {"imgA", "imgB"}

NoCommand == [kind |-> "none", id |-> <<>>, pc |-> "off", image |-> "none",
              path |-> <<>>, sent |-> "none"]

\* _clean_previous_cache: every file of the directory is unlinked
CleanPreviousCache(files) == [f \in DOMAIN files |-> "absent"]

\* save_image: open(filepath, 'wb') and write
SaveImage(files, id, image) == [files EXCEPT ![id] = image]

CacheInit ==
    /\ cacheFiles \in [ThumbIds -> {"absent", "old"}]
    /\ commands = [c \in CommandIds |-> NoCommand]

CacheIdle ==
    /\ cacheFiles = <<>>
    /\ commands = <<>>

SetCommand(c, rec) == commands' = [commands EXCEPT ![c] = rec]

\* /hv <id>: up to the request of get_video
HvCall(c) ==
    /\ commands[c].pc \in {"off", "done"}
    /\ \E id \in ThumbIds :
          SetCommand(c, [NoCommand EXCEPT !.kind = "hv", !.id = id, !.pc = "get_video"])
    /\ UNCHANGED cacheFiles
    /\ UNCHANGED notCache

\* get_video gave no video, or a video without thumbnail: a plain result
HvPlain(c) ==
    /\ commands[c].pc = "get_video"
    /\ SetCommand(c, [commands[c] EXCEPT !.pc = "done"])
    /\ UNCHANGED cacheFiles
    /\ UNCHANGED notCache

\* _get_thumbnail_with_blur up to the request of download_image
HvCleanAndDownload(c) ==
    /\ commands[c].pc = "get_video"
    /\ cacheFiles' = CleanPreviousCache(cacheFiles)
    /\ SetCommand(c, [commands[c] EXCEPT !.pc = "download"])
    /\ UNCHANGED notCache

\* the image has come and is blurred and written
HvDownloaded(c) ==
    /\ commands[c].pc = "download"
    /\ \E image \in Images :
          SetCommand(c, [commands[c] EXCEPT !.pc = "save", !.image = image])
    /\ UNCHANGED cacheFiles
    /\ UNCHANGED notCache

\* no image, or the blur raised: the path is None and the result is plain
HvNoImage(c) ==
    /\ commands[c].pc = "download"
    /\ SetCommand(c, [commands[c] EXCEPT !.pc = "done"])
    /\ UNCHANGED cacheFiles
    /\ UNCHANGED notCache

\* save_image has written; the path is returned, os.path.exists(thumb_path)
\* holds and the chain result is yielded
HvSavedAndYielded(c) ==
    /\ commands[c].pc = "save"
    /\ cacheFiles' = SaveImage(cacheFiles, commands[c].id, commands[c].image)
    /\ SetCommand(c, [commands[c] EXCEPT !.pc = "yielded", !.path = commands[c].id])
    /\ UNCHANGED notCache

\* the chain result is sent: the file of the path is read
HvSent(c) ==
    /\ commands[c].pc = "yielded"
    /\ SetCommand(c, [commands[c] EXCEPT !.pc = "done",
                                          !.sent = cacheFiles[commands[c].path]])
    /\ UNCHANGED cacheFiles
    /\ UNCHANGED notCache

\* /hlatest, /hs and the other listing commands: the cache is cleaned, then
\* the listing is requested
ListingCall(c) ==
    /\ commands[c].pc \in {"off", "done"}
    /\ cacheFiles' = CleanPreviousCache(cacheFiles)
    /\ \E kind \in {"hlatest", "hs"} :
          SetCommand(c, [NoCommand EXCEPT !.kind = kind, !.pc = "listing"])
    /\ UNCHANGED notCache

\* the listing has come and the text is yielded
ListingReply(c) ==
    /\ commands[c].pc = "listing"
    /\ SetCommand(c, [commands[c] EXCEPT !.pc = "done"])
    /\ UNCHANGED cacheFiles
    /\ UNCHANGED notCache

CacheNext ==
    \E c \in CommandIds :
        \/ HvCall(c) \/ HvPlain(c) \/ HvCleanAndDownload(c) \/ HvDownloaded(c)
        \/ HvNoImage(c) \/ HvSavedAndYielded(c) \/ HvSent(c)
        \/ ListingCall(c) \/ ListingReply(c)

-----------------------------------------------------------------------------
(* HanimeClient *)

None == [none |-> TRUE]

\* _get_session: a session is created when there is none or it is closed
GetSession(s) == IF s = "none" \/ s = "closed" THEN "open" ELSE s

\* _fetch: the text of a 200 response, None otherwise; <<>> is the empty text
FetchPage(resp) ==
    IF resp.kind = "status" /\ resp.status = 200
    THEN [text |-> resp.body, isNone |-> FALSE]
    ELSE [text |-> <<>>, isNone |-> TRUE]

\* get_video after the request has ended
GetVideoResult(video_id, resp) ==
    LET f == VideoFetch(NewVideo(video_id), resp)
    IN IF f.exc # "none" THEN [val |-> None, exc |-> f.exc]
       ELSE IF f.success THEN [val |-> f.video, exc |-> "none"]
       ELSE [val |-> None, exc |-> "none"]

TierRun(tier, out) == [tier |-> tier, out |-> out.ret, exc |-> out.exc]

\* the Nuxt payload tried first and the embedded JSON second
TierChainNuxtFirst(e, n, v) ==
    IF n.exc # "none" \/ n.ret # <<>>
    THEN [val |-> n.ret, exc |-> n.exc, log |-> <<TierRun("nuxt_payload", n)>>]
    ELSE IF e.exc # "none" \/ e.ret # <<>>
    THEN [val |-> e.ret, exc |-> e.exc,
          log |-> <<TierRun("nuxt_payload", n), TierRun("embedded_json", e)>>]
    ELSE [val |-> v.ret, exc |-> "none",
          log |-> <<TierRun("nuxt_payload", n), TierRun("embedded_json", e),
                    TierRun("video_list", v)>>]

GetLatestTiersNuxtFirst(html, lim) ==
    TierChainNuxtFirst(ParseEmbeddedJson(html, lim), ParseNuxtPayload(html, lim),
                       Returned(ParseVideoList(html, lim)))

\* the tiers all run and their results put together
TierChainMerged(e, n, v) ==
    IF e.exc # "none"
    THEN [val |-> <<>>, exc |-> e.exc, log |-> <<TierRun("embedded_json", e)>>]
    ELSE IF n.exc # "none"
    THEN [val |-> <<>>, exc |-> n.exc,
          log |-> <<TierRun("embedded_json", e), TierRun("nuxt_payload", n)>>]
    ELSE [val |-> e.ret \o n.ret \o v.ret, exc |-> "none",
          log |-> <<TierRun("embedded_json", e), TierRun("nuxt_payload", n),
                    TierRun("video_list", v)>>]

GetLatestTiersMerged(html, lim) ==
    TierChainMerged(ParseEmbeddedJson(html, lim), ParseNuxtPayload(html, lim),
                    Returned(ParseVideoList(html, lim)))

\* get_latest from the first extraction on, given what each tier gives on the
\* page: a tier is run only when every tier before it returned nothing, and
\* the first non-empty result (or the first exception) ends the call
TierChain(e, n, v) ==
    IF e.exc # "none" \/ e.ret # <<>>
    THEN [val |-> e.ret, exc |-> e.exc, log |-> <<TierRun("embedded_json", e)>>]
    ELSE IF n.exc # "none" \/ n.ret # <<>>
    THEN [val |-> n.ret, exc |-> n.exc,
          log |-> <<TierRun("embedded_json", e), TierRun("nuxt_payload", n)>>]
    ELSE [val |-> v.ret, exc |-> "none",
          log |-> <<TierRun("embedded_json", e), TierRun("nuxt_payload", n),
                    TierRun("video_list", v)>>]

\* get_latest from the first extraction on: the value returned or the
\* exception raised, and the tiers run
GetLatestTiers(html, lim) ==
    TierChain(ParseEmbeddedJson(html, lim), ParseNuxtPayload(html, lim),
              Returned(ParseVideoList(html, lim)))

\* get_latest after the page request has ended
GetLatestResult(resp, lim) ==
    IF FetchPage(resp).isNone \/ FetchPage(resp).text = <<>>
    THEN [val |-> <<>>, exc |-> "none", log |-> <<>>]
    ELSE GetLatestTiers(FetchPage(resp).text, lim)

-----------------------------------------------------------------------------
(* The client at work: one operation at a time, close() at any moment.      *)
(* An action is the code between two suspension points: a call up to its    *)
(* request, and the end of a request up to the next request or the return.  *)

MaxListingTokens == 2

ListingTokens ==
    { Anchor(<<"1">>),
      Img(<<"sA">>, <<"A">>),
      Filler(10),
      Script("nuxt_data", "array", "ok", PList(<<LeafRecord(10), LeafRecord(11)>>), ""),
      Script("nuxt_data", "array", "deep", PNull, ""),
      Script("window_nuxt", "object", "ok", VideosObject(<<1, 2>>), ";"),
      Script("window_nuxt", "object", "ok", VideosObject(<<4>>), "code}"),
      Script("window_nuxt", "object", "deep", PNull, ";"),
      Script("initial_state", "object", "ok", VideosObject(<<7>>), ";") }

ListingDocs == UNION {[1..n -> ListingTokens] : n \in 0..MaxListingTokens}

DetailDocs ==
    { <<>>,
      <<H3Title(<<"T">>)>>,
      <<TitleTag(<<"T", " ", "-", " ", "Hanime1">>)>>,
      <<TitleTag(<<"-", " ", "Hanime1">>)>>,
      <<Filler(10)>> }

\* how a request can end: the session closed under it leaves it one way
Endings(docs) ==
    IF broken THEN {Failure("closed")}
    ELSE {Response(200, d) : d \in docs}
         \cup {Response(404, <<>>), Failure("timeout"), Failure("error")}

VideoIds == {Digits(1), Digits(12345)}

\* for attempt in range(5)
GuessAttempts == 5

\* random.randint over the range of the attempt: its two ends stand for it
RandomIds(a) ==
    IF a < 2 THEN {Digits(100000), Digits(200000)}
    ELSE IF a < 4 THEN {Digits(50000), Digits(100000)}
    ELSE {Digits(10000), Digits(50000)}

ListingLimitOfRandom == 20

NoResult == [val |-> None, exc |-> "none"]

\* one line of fetchLog
FetchEntry(id, g) ==
    [id |-> id,
     outcome |-> IF g.exc # "none" THEN "raised"
                 ELSE IF g.val = None THEN "failed"
                 ELSE IF g.val.title # <<>> THEN "titled"
                 ELSE "untitled"]

ClientInit ==
    /\ session = "none"
    /\ op = "none"
    /\ pc = "idle"
    /\ latestLimit = 0
    /\ reqId = <<>>
    /\ broken = FALSE
    /\ attempt = 0 - 1
    /\ tierLog = <<>>
    /\ fetchLog = <<>>
    /\ listing = <<>>
    /\ lastResp = Failure("none")
    /\ requests = <<>>
    /\ opResult = NoResult

ClientIdle ==
    /\ session = "none"
    /\ op = "none"
    /\ pc = "off"
    /\ latestLimit = 0
    /\ reqId = <<>>
    /\ broken = FALSE
    /\ attempt = 0 - 1
    /\ tierLog = <<>>
    /\ fetchLog = <<>>
    /\ listing = <<>>
    /\ lastResp = Failure("none")
    /\ requests = <<>>
    /\ opResult = NoResult

\* the state of a call that has just sent its first request
Begin(name, lim, id, waiting) ==
    /\ op' = name
    /\ latestLimit' = lim
    /\ reqId' = id
    /\ session' = GetSession(session)
    /\ broken' = FALSE
    /\ attempt' = 0 - 1
    /\ tierLog' = <<>>
    /\ fetchLog' = <<>>
    /\ listing' = <<>>
    /\ lastResp' = Failure("none")
    /\ requests' = <<IF waiting = "wait_listing" THEN "listing" ELSE "detail">>
    /\ opResult' = NoResult
    /\ pc' = waiting
    /\ UNCHANGED notClient

\* get_latest(limit) up to the request of _fetch
CallGetLatest ==
    /\ pc \in {"idle", "done"}
    /\ \E lim \in 0..MaxLimit : Begin("latest", lim, <<>>, "wait_listing")

\* get_latest from the end of the request to its return
LatestResponse ==
    /\ pc = "wait_listing" /\ op = "latest"
    /\ \E resp \in Endings(ListingDocs) :
          \E r \in {GetLatestResult(resp, latestLimit)} :
             /\ lastResp' = resp
             /\ tierLog' = r.log
             /\ opResult' = [val |-> r.val, exc |-> r.exc]
    /\ pc' = "done"
    /\ UNCHANGED <<session, op, latestLimit, reqId, broken, attempt, fetchLog, listing, requests>>
    /\ UNCHANGED notClient

\* a search that parses whatever came back
SearchResultParsingAnyway(resp, lim) ==
    [val |-> ParseVideoList(resp.body, lim), exc |-> "none",
     log |-> <<TierRun("video_list", Returned(ParseVideoList(resp.body, lim)))>>]

\* search after the request has ended: [] without a page, else the previews
\* of _parse_video_list
SearchResult(resp, lim) ==
    IF FetchPage(resp).isNone \/ FetchPage(resp).text = <<>>
    THEN [val |-> <<>>, exc |-> "none", log |-> <<>>]
    ELSE [val |-> ParseVideoList(resp.body, lim), exc |-> "none",
          log |-> <<TierRun("video_list", Returned(ParseVideoList(resp.body, lim)))>>]

\* search(..., limit) up to the request of _fetch
CallSearch ==
    /\ pc \in {"idle", "done"}
    /\ \E lim \in 0..MaxLimit : Begin("search", lim, <<>>, "wait_listing")

\* search from the end of the request to its return
SearchResponse ==
    /\ pc = "wait_listing" /\ op = "search"
    /\ \E resp \in Endings(ListingDocs) :
          \E r \in {SearchResult(resp, latestLimit)} :
             /\ lastResp' = resp
             /\ tierLog' = r.log
             /\ opResult' = [val |-> r.val, exc |-> r.exc]
    /\ pc' = "done"
    /\ UNCHANGED <<session, op, latestLimit, reqId, broken, attempt, fetchLog, listing, requests>>
    /\ UNCHANGED notClient

\* get_video(video_id) up to the request of Video.fetch
CallGetVideo ==
    /\ pc \in {"idle", "done"}
    /\ \E id \in VideoIds : Begin("video", 0, id, "wait_detail")

\* get_video from the end of the request to its return
VideoResponse ==
    /\ pc = "wait_detail" /\ op = "video"
    /\ \E resp \in Endings(DetailDocs) :
          \E g \in {GetVideoResult(reqId, resp)} :
             /\ lastResp' = resp
             /\ fetchLog' = Append(fetchLog, FetchEntry(reqId, g))
             /\ opResult' = g
    /\ pc' = "done"
    /\ UNCHANGED <<session, op, latestLimit, reqId, broken, attempt, tierLog, listing, requests>>
    /\ UNCHANGED notClient

\* get_random up to the request of get_latest(limit=20)
CallGetRandom ==
    /\ pc \in {"idle", "done"}
    /\ Begin("random", ListingLimitOfRandom, <<>>, "wait_listing")

\* get_random: get_latest raised
RandomListingRaises ==
    /\ pc = "wait_listing" /\ op = "random"
    /\ \E resp \in Endings(ListingDocs) :
          \E r \in {GetLatestResult(resp, latestLimit)} :
             /\ r.exc # "none"
             /\ lastResp' = resp
             /\ tierLog' = r.log
             /\ opResult' = [val |-> None, exc |-> r.exc]
    /\ pc' = "done"
    /\ UNCHANGED <<session, op, latestLimit, reqId, broken, attempt, fetchLog, listing, requests>>
    /\ UNCHANGED notClient

\* get_random: the listing is not empty; random.choice, then get_video up to
\* its request
RandomPick ==
    /\ pc = "wait_listing" /\ op = "random"
    /\ \E resp \in Endings(ListingDocs) :
          \E r \in {GetLatestResult(resp, latestLimit)} :
             /\ r.exc = "none" /\ r.val # <<>>
             /\ lastResp' = resp
             /\ tierLog' = r.log
             /\ listing' = r.val
             /\ \E i \in 1..Len(r.val) : reqId' = r.val[i].video_id
    /\ session' = GetSession(session)
    /\ requests' = Append(requests, "detail")
    /\ broken' = FALSE
    /\ pc' = "wait_detail"
    /\ UNCHANGED <<op, latestLimit, attempt, fetchLog, opResult>>
    /\ UNCHANGED notClient

\* get_random: the listing is empty; the first attempt of the id-guessing loop
\* up to its request
RandomStartGuessing ==
    /\ pc = "wait_listing" /\ op = "random"
    /\ \E resp \in Endings(ListingDocs) :
          \E r \in {GetLatestResult(resp, latestLimit)} :
             /\ r.exc = "none" /\ r.val = <<>>
             /\ lastResp' = resp
             /\ tierLog' = r.log
    /\ listing' = <<>>
    /\ attempt' = 0
    /\ \E id \in RandomIds(0) : reqId' = id
    /\ session' = GetSession(session)
    /\ requests' = Append(requests, "detail")
    /\ broken' = FALSE
    /\ pc' = "wait_detail"
    /\ UNCHANGED <<op, latestLimit, fetchLog, opResult>>
    /\ UNCHANGED notClient

\* get_random going on to guess ids when the fetch of the picked video failed
RandomPickResponseFallingBack ==
    /\ pc = "wait_detail" /\ op = "random" /\ attempt < 0
    /\ \E resp \in Endings(DetailDocs) :
          \E g \in {GetVideoResult(reqId, resp)} :
             /\ lastResp' = resp
             /\ fetchLog' = Append(fetchLog, FetchEntry(reqId, g))
             /\ opResult' = g
             /\ pc' = IF g.val = None THEN "wait_detail" ELSE "done"
             /\ attempt' = IF g.val = None THEN 0 ELSE attempt
             /\ requests' = IF g.val = None THEN Append(requests, "detail") ELSE requests
    /\ UNCHANGED <<session, op, latestLimit, reqId, broken, tierLog, listing>>
    /\ UNCHANGED notClient

\* get_random: return await self.get_video(preview.video_id)
RandomPickResponse ==
    /\ pc = "wait_detail" /\ op = "random" /\ attempt < 0
    /\ \E resp \in Endings(DetailDocs) :
          \E g \in {GetVideoResult(reqId, resp)} :
             /\ lastResp' = resp
             /\ fetchLog' = Append(fetchLog, FetchEntry(reqId, g))
             /\ opResult' = g
    /\ pc' = "done"
    /\ UNCHANGED <<session, op, latestLimit, reqId, broken, attempt, tierLog, listing, requests>>
    /\ UNCHANGED notClient

\* a guess is taken whatever its title
GuessAcceptsAnyVideo(g) == g.val # None

\* if video and video.title
GuessAccepts(g) == g.val # None /\ g.val.title # <<>>

\* get_random: the guess is returned (or get_video raised)
RandomGuessAccepted ==
    /\ pc = "wait_detail" /\ op = "random" /\ attempt >= 0
    /\ \E resp \in Endings(DetailDocs) :
          \E g \in {GetVideoResult(reqId, resp)} :
             /\ g.exc # "none" \/ GuessAccepts(g)
             /\ lastResp' = resp
             /\ fetchLog' = Append(fetchLog, FetchEntry(reqId, g))
             /\ opResult' = g
    /\ pc' = "done"
    /\ UNCHANGED <<session, op, latestLimit, reqId, broken, attempt, tierLog, listing, requests>>
    /\ UNCHANGED notClient

\* get_random: the guess is dropped and the next attempt sends its request
RandomGuessRetry ==
    /\ pc = "wait_detail" /\ op = "random" /\ attempt >= 0
    /\ attempt + 1 < GuessAttempts
    /\ \E resp \in Endings(DetailDocs) :
          \E g \in {GetVideoResult(reqId, resp)} :
             /\ g.exc = "none" /\ ~GuessAccepts(g)
             /\ lastResp' = resp
             /\ fetchLog' = Append(fetchLog, FetchEntry(reqId, g))
    /\ attempt' = attempt + 1
    /\ \E id \in RandomIds(attempt + 1) : reqId' = id
    /\ session' = GetSession(session)
    /\ requests' = Append(requests, "detail")
    /\ broken' = FALSE
    /\ UNCHANGED <<op, pc, latestLimit, tierLog, listing, opResult>>
    /\ UNCHANGED notClient

\* get_random: the last guess is dropped; return None
RandomGuessExhausted ==
    /\ pc = "wait_detail" /\ op = "random" /\ attempt >= 0
    /\ attempt + 1 >= GuessAttempts
    /\ \E resp \in Endings(DetailDocs) :
          \E g \in {GetVideoResult(reqId, resp)} :
             /\ g.exc = "none" /\ ~GuessAccepts(g)
             /\ lastResp' = resp
             /\ fetchLog' = Append(fetchLog, FetchEntry(reqId, g))
    /\ opResult' = NoResult
    /\ pc' = "done"
    /\ UNCHANGED <<session, op, latestLimit, reqId, broken, attempt, tierLog, listing, requests>>
    /\ UNCHANGED notClient

\* close(): the open session is closed, under the request in flight if any
Close ==
    /\ session = "open"
    /\ session' = "closed"
    /\ broken' = (broken \/ pc \in {"wait_listing", "wait_detail"})
    /\ UNCHANGED <<op, pc, latestLimit, reqId, attempt, tierLog, fetchLog, listing, lastResp,
                   requests, opResult>>
    /\ UNCHANGED notClient

Next ==
    \/ CallGetLatest \/ LatestResponse
    \/ CallSearch \/ SearchResponse
    \/ CallGetVideo \/ VideoResponse
    \/ CallGetRandom \/ RandomListingRaises \/ RandomPick \/ RandomStartGuessing
    \/ RandomPickResponse
    \/ RandomGuessAccepted \/ RandomGuessRetry \/ RandomGuessExhausted
    \/ Close

-----------------------------------------------------------------------------
(* The session of one client.  Tasks of one event loop call the network     *)
(* operations and close() in any order.  _get_session has no await, so its  *)
(* test and its assignment are one step; close() tests and then awaits      *)
(* ClientSession.close(), after whose call the session reads closed.        *)

MaxTasks == 2

\* the network operations begun are counted up to MaxCalls
MaxCalls == 3

SessionTasks == 1..MaxTasks

OpenSessions(store) == {i \in 1..Len(store) : store[i] = "open"}

\* a client that makes a session for every operation
GetSessionObjectAlwaysNew(cur, store) ==
    [cur |-> Len(store) + 1, store |-> Append(store, "open")]

\* _get_session on the identities of the sessions
GetSessionObject(cur, store) ==
    IF cur = 0 \/ store[cur] = "closed"
    THEN [cur |-> Len(store) + 1, store |-> Append(store, "open")]
    ELSE [cur |-> cur, store |-> store]

\* close()
CloseSession(cur, store) ==
    IF cur # 0 /\ store[cur] = "open" THEN [store EXCEPT ![cur] = "closed"] ELSE store

SessStep(ev, t) == [ev |-> ev, task |-> t, cur |-> selfSession, store |-> sessStore]

SessInit ==
    /\ sessStore = <<>>
    /\ selfSession = 0
    /\ inFlight = [t \in SessionTasks |-> 0]
    /\ sessCalls = 0
    /\ sessLast = [ev |-> "init", task |-> 0, cur |-> 0, store |-> <<>>]

SessIdle ==
    /\ sessStore = <<>>
    /\ selfSession = 0
    /\ inFlight = <<>>
    /\ sessCalls = 0
    /\ sessLast = [ev |-> "off", task |-> 0, cur |-> 0, store |-> <<>>]

\* a task begins a network operation: session = await self._get_session(),
\* then the request on that session
SessBeginRequest ==
    /\ sessCalls < MaxCalls
    /\ \E t \in SessionTasks :
          /\ inFlight[t] = 0
          /\ \E r \in {GetSessionObject(selfSession, sessStore)} :
                /\ selfSession' = r.cur
                /\ sessStore' = r.store
                /\ inFlight' = [inFlight EXCEPT ![t] = r.cur]
          /\ sessLast' = SessStep("request", t)
    /\ sessCalls' = sessCalls + 1
    /\ UNCHANGED notSess

\* the request of a task ends
SessEndRequest ==
    /\ \E t \in SessionTasks :
          /\ inFlight[t] # 0
          /\ inFlight' = [inFlight EXCEPT ![t] = 0]
          /\ sessLast' = SessStep("response", t)
    /\ UNCHANGED <<sessStore, selfSession, sessCalls>>
    /\ UNCHANGED notSess

\* await client.close()
SessClose ==
    /\ sessStore' = CloseSession(selfSession, sessStore)
    /\ sessLast' = SessStep("close", 0)
    /\ UNCHANGED <<selfSession, inFlight, sessCalls>>
    /\ UNCHANGED notSess

SessNext == SessBeginRequest \/ SessEndRequest \/ SessClose

-----------------------------------------------------------------------------
(* The /hs command (src/main.py).  args is declared a str and handled as a  *)
(* list of arguments; both are sequences for len(), [-1], [:-1] and join,   *)
(* the elements of a str being its characters.  The atom "sup2" is the      *)
(* superscript two, a digit for str.isdigit and no number for int().        *)

\* a str argument has at most MaxArgChars characters
MaxArgChars == 4

\* a list has at most MaxArgs arguments
MaxArgs == 3

ArgChars == {"a", "b", "1", "2", "sup2"}

\* the arguments a list is made of
ArgWords == {<<c>> : c \in ArgChars} \cup {<<"a", "b">>, <<"1", "2">>, <<"a", "1">>, <<"2", "sup2">>}

\* s.isdigit(), which the superscript two satisfies too
StrIsDigit(s) == s # <<>> /\ \A i \in 1..Len(s) : s[i] \in DigitSet \cup {"sup2"}

\* int(s) for a string isdigit() accepts
IntOfStr(s) ==
    IF \E i \in 1..Len(s) : s[i] = "sup2"
    THEN [val |-> 0, exc |-> "ValueError"]
    ELSE [val |-> DigitsValue(s), exc |-> "none"]

\* " ".join(parts)
RECURSIVE JoinSpaces(_)
JoinSpaces(parts) ==
    IF parts = <<>> THEN <<>>
    ELSE IF Len(parts) = 1 THEN Head(parts)
    ELSE Head(parts) \o <<" ">> \o JoinSpaces(Tail(parts))

NoSearch(exc) == [searched |-> FALSE, page |-> 0, query |-> <<>>, exc |-> exc]

\* cmd_search up to its call of client.search
CmdSearchCall(args) ==
    IF args = <<>> THEN NoSearch("none")
    ELSE IF Len(args) > 1 /\ StrIsDigit(args[Len(args)])
    THEN (IF IntOfStr(args[Len(args)]).exc # "none" THEN NoSearch(IntOfStr(args[Len(args)]).exc)
          ELSE IF JoinSpaces(SubSeq(args, 1, Len(args) - 1)) = <<>> THEN NoSearch("none")
          ELSE [searched |-> TRUE, page |-> IntOfStr(args[Len(args)]).val,
                query |-> JoinSpaces(SubSeq(args, 1, Len(args) - 1)), exc |-> "none"])
    ELSE IF JoinSpaces(args) = <<>> THEN NoSearch("none")
    ELSE [searched |-> TRUE, page |-> 1, query |-> JoinSpaces(args), exc |-> "none"]

StrArgs == UNION {[1..n -> {<<c>> : c \in ArgChars}] : n \in 0..MaxArgChars}

ListArgs == UNION {[1..n -> ArgWords] : n \in 0..MaxArgs}

CmdInit ==
    /\ \/ cmdKind = "str" /\ cmdArgs \in StrArgs
       \/ cmdKind = "list" /\ cmdArgs \in ListArgs
    /\ cmdOut = NoSearch("none")
    /\ cmdPc = "ready"

CmdIdle ==
    /\ cmdArgs = <<>>
    /\ cmdKind = "none"
    /\ cmdOut = NoSearch("none")
    /\ cmdPc = "off"

\* /hs ...
DoCmdSearch ==
    /\ cmdPc = "ready"
    /\ cmdOut' = CmdSearchCall(cmdArgs)
    /\ cmdPc' = "done"
    /\ UNCHANGED <<cmdArgs, cmdKind>>
    /\ UNCHANGED notCmd

CmdNext == DoCmdSearch

-----------------------------------------------------------------------------
(* _parse_video_list on the documents of at most MaxTokens tokens *)

MaxTokens == 4

ListTokens ==
    { Anchor(<<"1">>), Anchor(<<"2">>),
      Img(<<"sA">>, <<"A">>), Img(<<"sB">>, <<"<b>", "B", "&amp;", " ", " ", "B", "</b>">>),
      Img(<<"sU">>, <<"User", " ", "X">>),
      TitleEl(<<" ", "C", " ">>),
      Filler(2970), Filler(2971) }

ListDocs == UNION {[1..n -> ListTokens] : n \in 0..MaxTokens}

ListInit ==
    /\ listHtml \in ListDocs
    /\ listLimit \in 0..MaxLimit
    /\ listOut = <<>>
    /\ listPc = "ready"

ListIdle ==
    /\ listHtml = <<>>
    /\ listLimit = 0
    /\ listOut = <<>>
    /\ listPc = "off"

\* self._parse_video_list(html, limit)
DoParseVideoList ==
    /\ listPc = "ready"
    /\ listOut' = ParseVideoList(listHtml, listLimit)
    /\ listPc' = "done"
    /\ UNCHANGED <<listHtml, listLimit>>
    /\ UNCHANGED notList

ListNext == DoParseVideoList

(* The neighbourhood of a watch link, stated on positions: the characters   *)
(* from the end of the link at token m to the start of the next watch link  *)
(* (the end of the document when there is none), at most 3000 of them.      *)

IsWatchLink(html, j) == html[j].k = "a"

NextLinkStart(html, m) ==
    LET later == {j \in (m + 1)..Len(html) : IsWatchLink(html, j)}
    IN IF later = {} THEN DocLen(html)
       ELSE TokStart(html, CHOOSE j \in later : \A h \in later : j <= h)

NeighbourhoodEnd(html, m) ==
    IF NextLinkStart(html, m) < TokEnd(html, m) + 3000
    THEN NextLinkStart(html, m)
    ELSE TokEnd(html, m) + 3000

InNeighbourhood(html, m, j) ==
    /\ TokStart(html, j) >= TokEnd(html, m)
    /\ TokEnd(html, j) <= NeighbourhoodEnd(html, m)

\* the first watch link of the document for the id
FirstLinkOf(html, id) ==
    CHOOSE m \in 1..Len(html) :
        /\ IsWatchLink(html, m) /\ html[m].id = id
        /\ \A j \in 1..(m - 1) : ~(IsWatchLink(html, j) /\ html[j].id = id)

\* the texts a token offers as a title, cleaned
TitleTextsOf(tok) ==
    CASE tok.k = "img" -> {CleanHtml(tok.alt)}
      [] tok.k = "title" -> {CleanHtml(tok.text)}
      [] OTHER -> {}

SrcsOf(tok) == IF tok.k = "img" THEN {tok.src} ELSE {}

\* two adjacent links for distinct ids, each followed by its own image
TwoAdjacentCards(html) ==
    /\ Len(html) = 4
    /\ IsWatchLink(html, 1) /\ IsWatchLink(html, 3)
    /\ html[1].id # html[3].id
    /\ html[2] = Img(<<"sA">>, <<"A">>)
    /\ html[4].k = "img" /\ CleanHtml(html[4].alt) = <<"B", "&", " ", "B">>

\* C8: the title and the thumbnail of every preview _parse_video_list returns
\* come from the neighbourhood of the first watch link of its id, never from
\* another link's neighbourhood; with two adjacent links for distinct ids,
\* each followed by its own img alt, each id gets its own alt text.
C8_OwnNeighbourhood ==
    listPc = "done" =>
        /\ \A r \in 1..Len(listOut) :
              LET p == listOut[r]
                  m == FirstLinkOf(listHtml, p.video_id)
              IN /\ p.title.v # <<>> =>
                        \E j \in 1..Len(listHtml) :
                            /\ InNeighbourhood(listHtml, m, j)
                            /\ p.title.v \in TitleTextsOf(listHtml[j])
                 /\ p.thumbnail.v # <<>> =>
                        \E j \in 1..Len(listHtml) :
                            /\ InNeighbourhood(listHtml, m, j)
                            /\ p.thumbnail.v \in SrcsOf(listHtml[j])
        /\ (TwoAdjacentCards(listHtml) /\ listLimit >= 2) =>
              /\ Len(listOut) = 2
              /\ listOut[1].video_id = listHtml[1].id /\ listOut[1].title.v = <<"A">>
              /\ listOut[2].video_id = listHtml[3].id
              /\ listOut[2].title.v = <<"B", "&", " ", "B">>

C8_Witness ==
    /\ listPc = "done"
    /\ TwoAdjacentCards(listHtml)
    /\ Len(listOut) = 2
    /\ listOut[1].title.v = <<"A">>
    /\ listOut[2].thumbnail.v = <<"sB">>

\* the ids of the document's watch links in the order of their first occurrence
RECURSIVE FirstOccurrences(_, _)
FirstOccurrences(ids, seen) ==
    IF ids = <<>> THEN <<>>
    ELSE IF Head(ids) \in seen THEN FirstOccurrences(Tail(ids), seen)
    ELSE <<Head(ids)>> \o FirstOccurrences(Tail(ids), seen \cup {Head(ids)})

LinkIds(html) ==
    LET links == SelectSeq(html, LAMBDA tok : tok.k = "a")
    IN [i \in 1..Len(links) |-> links[i].id]

\* C9: _parse_video_list returns each id at most once, in the order of the
\* ids' first occurrence, and the preview of an id is the one extracted at its
\* first occurrence: a later link for the same id changes nothing.
C9_FirstOccurrenceWins ==
    listPc = "done" =>
        /\ PreviewIds(listOut) = Prefix(FirstOccurrences(LinkIds(listHtml), {}), listLimit)
        /\ \A r \in 1..Len(listOut) :
              LET m == FirstLinkOf(listHtml, listOut[r].video_id)
              IN listOut[r] =
                    PreviewFromChunk(listHtml, listOut[r].video_id, TokEnd(listHtml, m),
                                     NeighbourhoodEnd(listHtml, m))

\* a repeated link whose own neighbourhood offers another title than the first
C9_Witness ==
    /\ listPc = "done"
    /\ Len(listHtml) = 4
    /\ listHtml[1] = Anchor(<<"1">>) /\ listHtml[3] = Anchor(<<"1">>)
    /\ listHtml[2] = Img(<<"sA">>, <<"A">>)
    /\ listHtml[4].k = "title"
    /\ Len(listOut) = 1
    /\ listOut[1].title.v = <<"A">>

\* the start of the next watch link for another id than that of the link at
\* token m, or the end of the document
NextOtherLinkStart(html, m) ==
    IF \E j \in (m + 1)..Len(html) : IsWatchLink(html, j) /\ html[j].id # html[m].id
    THEN TokStart(html, CHOOSE j \in (m + 1)..Len(html) :
                           /\ IsWatchLink(html, j) /\ html[j].id # html[m].id
                           /\ \A h \in (m + 1)..(j - 1) :
                                 ~(IsWatchLink(html, h) /\ html[h].id # html[m].id))
    ELSE DocLen(html)

\* C21: the neighbourhood of an id's first occurrence is not ended by a
\* repeated link for the same id: it runs to the next watch link whose id is
\* different (or to the end of the document), at most 3000 characters, so the
\* text after a second link for the same id is searched for that id.
C21_RepeatedLinkKeepsNeighbourhood ==
    listPc = "done" =>
        \A r \in 1..Len(listOut) :
            listOut[r] =
                PreviewFromChunk(listHtml, listOut[r].video_id,
                                 TokEnd(listHtml, FirstLinkOf(listHtml, listOut[r].video_id)),
                                 IF NextOtherLinkStart(listHtml, FirstLinkOf(listHtml, listOut[r].video_id))
                                      < TokEnd(listHtml, FirstLinkOf(listHtml, listOut[r].video_id)) + ChunkCap
                                 THEN NextOtherLinkStart(listHtml, FirstLinkOf(listHtml, listOut[r].video_id))
                                 ELSE TokEnd(listHtml, FirstLinkOf(listHtml, listOut[r].video_id)) + ChunkCap)

-----------------------------------------------------------------------------
(* Descent steps, counted on the description of the input *)

PassableKinds == {"list", "list2", "dict_videos", "rec_data"}

\* node i is reached through recognised container keys and list elements only
SpineReachable(spine, i) == \A j \in 1..(i - 1) : spine[j] \in PassableKinds

\* the ids of the record-shaped nodes that need fewer than `bound` descent steps:
\* spine node i needs i - 1 steps, the leaf of a list at node i needs i steps
RecordsWithin(spine, bound) ==
    {Digits(i - 1) : i \in {k \in 1..Len(spine) :
        spine[k] \in {"rec_data", "rec_meta"} /\ SpineReachable(spine, k) /\ k - 1 < bound}}
    \cup
    {Digits(10 + i - 1) : i \in {k \in 1..Len(spine) :
        spine[k] = "list2" /\ SpineReachable(spine, k) /\ k < bound}}

\* C6: with the default bound 5, _extract_videos_from_json returns exactly the
\* record-shaped nodes reached through fewer than 5 descent steps (a step is a
\* traversal into a recognised container key or into a list element), each once,
\* and none that needs 5 or more steps.
C6_DepthBound ==
    jsonPc = "done" =>
        /\ SeqRange(PreviewIds(jsonOut)) = RecordsWithin(jsonSpine, 5)
        /\ Len(jsonOut) = Cardinality(RecordsWithin(jsonSpine, 5))

\* a record at 4 steps is returned while one at 5 steps is not
C6_Witness ==
    /\ jsonPc = "done"
    /\ Len(jsonSpine) = 6
    /\ jsonSpine[5] = "rec_data"
    /\ jsonSpine[6] = "rec_meta"
    /\ SpineReachable(jsonSpine, 6)
    /\ Digits(4) \in SeqRange(PreviewIds(jsonOut))
    /\ Digits(5) \notin SeqRange(PreviewIds(jsonOut))

-----------------------------------------------------------------------------
(* get_latest: the tiers *)

\* what a tier gives on a page
TierOutput(tier, html, lim) ==
    CASE tier = "embedded_json" -> ParseEmbeddedJson(html, lim)
      [] tier = "nuxt_payload" -> ParseNuxtPayload(html, lim)
      [] OTHER -> Returned(ParseVideoList(html, lim))

CodeTierOrder == <<"embedded_json", "nuxt_payload", "video_list">>

\* get_latest has run its tiers on the page of lastResp and no later request
\* has ended
ListingDone == op \in {"latest", "random"} /\ tierLog # <<>> /\ fetchLog = <<>>

\* C1: after a successful page fetch the tiers of get_latest run one after
\* another, a later tier only when every earlier tier returned an empty list;
\* the value returned is the result of the first tier that gave a non-empty
\* list, never a merge of several tiers, and the result of the last tier is
\* returned even when it is empty.
C1_FirstNonEmptyTier ==
    ListingDone =>
        /\ \A i \in 1..Len(tierLog) :
              /\ tierLog[i] = TierRun(tierLog[i].tier,
                                      TierOutput(tierLog[i].tier, lastResp.body, latestLimit))
              /\ \A j \in 1..(i - 1) :
                    /\ tierLog[j].tier # tierLog[i].tier
                    /\ tierLog[j].out = <<>>
                    /\ tierLog[j].exc = "none"
        /\ Len(tierLog) <= Len(CodeTierOrder)
        /\ tierLog[Len(tierLog)].exc = "none" =>
              /\ tierLog[Len(tierLog)].out = <<>> => Len(tierLog) = Len(CodeTierOrder)
              /\ op = "latest" => opResult = [val |-> tierLog[Len(tierLog)].out, exc |-> "none"]
              /\ (op = "random" /\ pc = "wait_detail") => listing = tierLog[Len(tierLog)].out

\* the second tier answers on a page where the third would answer as well
C1_Witness ==
    /\ op = "latest" /\ pc = "done"
    /\ Len(tierLog) = 2
    /\ opResult.val # <<>>
    /\ ParseVideoList(lastResp.body, latestLimit) # <<>>
    /\ ParseVideoList(lastResp.body, latestLimit) # opResult.val

NuxtFirstTierOrder == <<"nuxt_payload", "embedded_json", "video_list">>

\* C2 as stated: _parse_nuxt_payload is attempted first, _parse_embedded_json
\* second and _parse_video_list last.
C2_NuxtPayloadFirst ==
    ListingDone => \A i \in 1..Len(tierLog) : tierLog[i].tier = NuxtFirstTierOrder[i]

\* C2: in get_latest _parse_embedded_json is attempted first,
\* _parse_nuxt_payload second and _parse_video_list last.
C2_EmbeddedJsonFirst ==
    ListingDone => \A i \in 1..Len(tierLog) : tierLog[i].tier = CodeTierOrder[i]

\* a page on which both embedded-data extractors find records: the records of
\* _parse_embedded_json are returned
C2_Witness ==
    /\ op = "latest" /\ pc = "done"
    /\ Len(tierLog) = 1
    /\ opResult.val # <<>>
    /\ ParseNuxtPayload(lastResp.body, latestLimit).ret # <<>>
    /\ ParseNuxtPayload(lastResp.body, latestLimit).ret # opResult.val

-----------------------------------------------------------------------------
(* get_video *)

IsSuccessStatus(resp) == resp.kind = "status" /\ resp.status = 200

\* C3: get_video never raises to its caller; it returns None whenever the
\* detail request ends with a non-200 status, a timeout or a transport
\* exception, the session closed by a concurrent close() included; it returns
\* a Video only when Video.fetch reported success.
C3_GetVideoFailsSoft ==
    (op = "video" /\ pc = "done") =>
        /\ opResult.exc = "none"
        /\ ~IsSuccessStatus(lastResp) => opResult.val = None
        /\ opResult.val # None =>
              /\ VideoFetch(NewVideo(reqId), lastResp).success
              /\ opResult.val = VideoFetch(NewVideo(reqId), lastResp).video

\* the session was closed under the request of get_video
C3_Witness ==
    /\ op = "video" /\ pc = "done"
    /\ lastResp.kind = "closed"
    /\ session = "closed"
    /\ opResult = NoResult

\* C4: a detail fetch whose response has the success status and an empty body
\* is a fetch failure: get_video returns None.
C4_EmptyBodyFails ==
    (op = "video" /\ pc = "done" /\ IsSuccessStatus(lastResp) /\ lastResp.body = <<>>) =>
        opResult.val = None

-----------------------------------------------------------------------------
(* get_random: the id-guessing loop *)

Rejected(entry) == entry.outcome \in {"failed", "untitled"}

\* C5: when the listing of get_random is empty the guesses are fetched one at
\* a time; the first guess whose fetch succeeds with a non-empty title is
\* returned and no fetch follows it; None is returned only after exactly 5
\* guesses, each of which failed or had an empty title.
C5_GuessingLoop ==
    (op = "random" /\ attempt >= 0) =>
        /\ listing = <<>>
        /\ \A i \in 1..Len(fetchLog) : i < Len(fetchLog) => Rejected(fetchLog[i])
        /\ pc = "wait_detail" =>
              /\ Len(fetchLog) = attempt
              /\ attempt < GuessAttempts
              /\ \A i \in 1..Len(fetchLog) : Rejected(fetchLog[i])
        /\ (pc = "done" /\ opResult.val # None) =>
              /\ Len(fetchLog) = attempt + 1
              /\ fetchLog[Len(fetchLog)].outcome = "titled"
              /\ opResult.val.video_id = fetchLog[Len(fetchLog)].id
              /\ opResult.val.title # <<>>
        /\ (pc = "done" /\ opResult = NoResult) =>
              /\ Len(fetchLog) = GuessAttempts
              /\ \A i \in 1..Len(fetchLog) : Rejected(fetchLog[i])

\* the third guess is returned after a guess with an empty title and a guess
\* that failed
C5_Witness ==
    /\ op = "random" /\ pc = "done" /\ attempt = 2
    /\ Len(fetchLog) = 3
    /\ fetchLog[1].outcome = "untitled"
    /\ fetchLog[2].outcome = "failed"
    /\ opResult.val # None
    /\ opResult.val.title # <<>>

-----------------------------------------------------------------------------
(* _extract_uploader *)

\* the document has been fetched and _parse_html has run to its end
DetailParsed == detPc = "done" /\ detRet = "true" /\ detHtml # <<>>

\* the names the three strategies find in the document, cleaned
StrategyNames(html) ==
    {CleanHtml(html[j].text) :
        j \in {FirstOfKind(html, "artist"), FirstOfKind(html, "share"),
               FirstOfKind(html, "brand")} \ {0}}

\* C13: after uploader extraction has run for a fetched detail document the
\* uploader is never the empty string, and it is the sentinel whenever no
\* strategy yields a non-empty name.
C13_UploaderNeverEmpty ==
    DetailParsed =>
        /\ detVideo.uploader # <<>>
        /\ (StrategyNames(detHtml) \subseteq {<<>>}) => detVideo.uploader = UnknownUploader

-----------------------------------------------------------------------------
(* _extract_tags *)

\* C14: the tag list is strictly ascending, holds no entry of the denylist and
\* is the union of the cleaned tags of the meta strategy and of the
\* tag-container strategy minus the denylist; occurrences whose cleaned text is
\* the same give one entry.
C14_TagsSortedUnion ==
    DetailParsed =>
        /\ \A i \in 1..(Len(detVideo.tags) - 1) : StrLess(detVideo.tags[i], detVideo.tags[i + 1])
        /\ \A i \in 1..Len(detVideo.tags) : detVideo.tags[i] \notin Blacklist
        /\ SeqRange(detVideo.tags) = (MetaTags(detHtml) \cup ClassTags(detHtml)) \ Blacklist

\* "B" as a meta tag and as a tag link with a <span> and an entity, "A" after
\* them: one "B" comes out, behind "A"
C14_Witness ==
    /\ DetailParsed
    /\ detHtml = <<PatternEl("meta_tag", <<"B">>),
                   PatternEl("tag_div", <<"<span>", "#", "</span>", "&nbsp;", "B">>),
                   PatternEl("tag_div", <<"A", "&nbsp;", "<span>", "#", "</span>">>)>>
    /\ detVideo.tags = <<<<"A">>, <<"B">>>>

-----------------------------------------------------------------------------
(* Video.fetch, again and again on one Video *)

DocFields(v) ==
    <<v.title, v.views, v.upload_date, v.duration, v.thumbnail, v.uploader, v.tags,
      v.video_url>>

\* the fields as the document of the response alone gives them
FieldsOfDocument(id, resp) == DocFields(ParseHtml(Received(NewVideo(id), resp)))

\* C15: video_id never changes; after a fetch that returned True the eight
\* fields are those of the newly fetched document only; after a fetch that
\* returned False they are unchanged.
C15_FetchOverwritesWholesale ==
    vidRequests # <<>> =>
        /\ vidObj.video_id = vidBefore.video_id
        /\ vidRet = "true" => DocFields(vidObj) = FieldsOfDocument(vidObj.video_id, vidResp)
        /\ vidRet = "false" => DocFields(vidObj) = DocFields(vidBefore)

\* C19: to_video makes exactly one detail request, for the preview's id, and
\* the Video returned is populated from the detail document or has its fetched
\* flag False.
C19_ToVideoNeverClaimsCompleteness ==
    (vidOrigin = "to_video" /\ Len(vidRequests) = 1) =>
        /\ vidRequests = <<vidPreview.video_id>>
        /\ \/ vidObj.fetched = FALSE
           \/ DocFields(vidObj) = FieldsOfDocument(vidObj.video_id, vidResp)

-----------------------------------------------------------------------------
(* _parse_embedded_json and the undefined-to-null repair *)

\* the fragments the patterns of _parse_embedded_json capture, in the order
\* they are parsed
EmbeddedCaptures(html) ==
    Flatten([p \in 1..Len(EmbeddedPatterns) |-> Captures(EmbeddedPatterns[p], html)])

\* the ids of the records of a fragment once undefined reads as null
RepairedIds(frag) ==
    SeqRange(PreviewIds(ExtractVideosFromJson(FixJsObject(frag).val, DefaultMaxDepth)))

\* C20: every fragment the inline-variable extractor matches is repaired
\* (undefined to null) before it is parsed: a fragment valid apart from the
\* bare literal undefined yields its records (unless the limit cut the list).
C20_EmbeddedRepairsUndefined ==
    (exPc = "done" /\ exWhich = "embedded" /\ exOut.exc = "none" /\ Len(exOut.ret) < exLimit) =>
        \A i \in 1..Len(EmbeddedCaptures(exHtml)) :
            EmbeddedCaptures(exHtml)[i].wf = "undef" =>
                RepairedIds(EmbeddedCaptures(exHtml)[i]) \subseteq SeqRange(PreviewIds(exOut.ret))

-----------------------------------------------------------------------------
(* The session of a client *)

\* C16: a client holds no session when constructed and creates one on its
\* first network operation; an operation that finds the session open uses that
\* very session; under any interleaving of operations and close() at most one
\* session created by the client is open; close() leaves no open session and
\* changes nothing when none is open.
C16_OneSession ==
    /\ sessCalls = 0 => (sessStore = <<>> /\ selfSession = 0)
    /\ sessCalls > 0 => (sessStore # <<>> /\ selfSession # 0)
    /\ Cardinality(OpenSessions(sessStore)) <= 1
    /\ sessLast.ev = "request" =>
          /\ inFlight[sessLast.task] = selfSession
          /\ sessStore[selfSession] = "open"
          /\ OpenSessions(sessLast.store) # {} =>
                (selfSession = sessLast.cur /\ sessStore = sessLast.store)
    /\ sessLast.ev = "close" =>
          /\ OpenSessions(sessStore) = {}
          /\ OpenSessions(sessLast.store) = {} => sessStore = sessLast.store

\* the first session was closed and a second one made; both tasks have a
\* request on the second, the later one having found it open
C16_Witness ==
    /\ sessStore = <<"closed", "open">>
    /\ selfSession = 2
    /\ inFlight = <<2, 2>>
    /\ sessLast.ev = "request"
    /\ sessLast.cur = 2

-----------------------------------------------------------------------------
(* get_latest and search without a page; the requests of an operation *)

\* the page request ended with a status other than 200, an exception or a
\* timeout, or with 200 and an empty body
PageFailed(resp) == resp.kind # "status" \/ resp.status # 200 \/ resp.body = <<>>

\* C17: get_latest and search return an empty list, raise nothing and run no
\* extraction tier whenever the page request ends with a non-200 status, a
\* transport exception or timeout, or a 200 response with an empty body.
C17_NoPageNoTiers ==
    (pc = "done" /\ op \in {"latest", "search"} /\ PageFailed(lastResp)) =>
        /\ opResult = [val |-> <<>>, exc |-> "none"]
        /\ tierLog = <<>>

\* a search whose request timed out
C17_Witness ==
    /\ pc = "done" /\ op = "search"
    /\ lastResp = Failure("timeout")
    /\ opResult = [val |-> <<>>, exc |-> "none"]
    /\ tierLog = <<>>

\* the requests of a finished operation
RequestCounts ==
    /\ op \in {"latest", "search"} => requests = <<"listing">>
    /\ op = "video" => requests = <<"detail">>
    /\ op = "random" =>
          /\ Head(requests) = "listing"
          /\ \A i \in 2..Len(requests) : requests[i] = "detail"
          /\ listing # <<>> => Len(requests) = 2
          /\ listing = <<>> => Len(requests) - 1 \in 1..GuessAttempts

\* C18: get_video, get_latest and search send exactly one request whatever its
\* outcome; get_random sends one listing request followed by exactly one
\* detail request (listing not empty) or by 1 to 5 detail requests (listing
\* empty).
C18_NoRepeatedRequest == pc = "done" => RequestCounts

\* the same for the operations that returned: only a get_random whose
\* get_latest raised sends no detail request
C18_RequestsOfReturnedCalls ==
    pc = "done" =>
        IF op = "random" /\ opResult.exc # "none" /\ fetchLog = <<>>
        THEN requests = <<"listing">>
        ELSE RequestCounts

-----------------------------------------------------------------------------
(* _extract_video_url *)

\* C22: every non-empty video_url begins with the scheme prefix "http",
\* whether the quoted-literal scan or the labelled-pattern fallback gave it,
\* and the fallback applies the three normalisation steps of the scan
\* (unicode-escape decoding, repair of escaped slashes, entity unescaping).
C22_VideoUrlHasScheme ==
    DetailParsed =>
        /\ detVideo.video_url # <<>> => Head(detVideo.video_url) = "http://"
        /\ (FirstByPatterns(detHtml, QuotedUrlPatterns) = 0
            /\ FirstByPatterns(detHtml, FallbackUrlPatterns) # 0) =>
              detVideo.video_url =
                 CleanUrl(UnicodeUnescape(
                    detHtml[FirstByPatterns(detHtml, FallbackUrlPatterns)].text))

-----------------------------------------------------------------------------
(* get_random on a listing that is not empty *)

\* C23: when the listing get_random fetched is not empty, get_random makes
\* exactly one detail fetch, for an id of that listing, and returns what
\* get_video gave: None when the fetch failed, without entering the
\* id-guessing loop.
C23_PickedVideoAsIs ==
    (op = "random" /\ pc = "done" /\ listing # <<>>) =>
        /\ Len(fetchLog) = 1
        /\ requests = <<"listing", "detail">>
        /\ fetchLog[1].id \in SeqRange(PreviewIds(listing))
        /\ attempt < 0
        /\ opResult = GetVideoResult(fetchLog[1].id, lastResp)
        /\ fetchLog[1].outcome = "failed" => opResult = NoResult

\* the fetch of the picked video failed and None came back
C23_Witness ==
    /\ op = "random" /\ pc = "done" /\ listing # <<>>
    /\ fetchLog = <<[id |-> listing[1].video_id, outcome |-> "failed"]>>
    /\ opResult = NoResult

-----------------------------------------------------------------------------
(* search and the extraction tiers *)

\* C24: search applies the tiered fallback of get_latest to the page it
\* fetched: the two embedded-data extractors are attempted before
\* _parse_video_list, which runs only if both returned nothing.
C24_SearchUsesTiers ==
    (op = "search" /\ pc = "done" /\ ~PageFailed(lastResp)) =>
        /\ tierLog = GetLatestTiers(lastResp.body, latestLimit).log
        /\ opResult = [val |-> GetLatestTiers(lastResp.body, latestLimit).val,
                       exc |-> GetLatestTiers(lastResp.body, latestLimit).exc]

-----------------------------------------------------------------------------
(* /hs *)

\* the arguments as the user typed them: a str is one argument
TypedArgs == IF cmdKind = "str" THEN (IF cmdArgs = <<>> THEN <<>> ELSE <<Flatten(cmdArgs)>>)
             ELSE cmdArgs

\* C25: the last argument of /hs is the page number only when more than one
\* argument was given and the last one is purely numeric; otherwise the page
\* is 1; the query passed to client.search is the keyword argument(s) as
\* typed, joined by single spaces, nothing inserted or removed.
C25_SearchArguments ==
    (cmdPc = "done" /\ TypedArgs # <<>>) =>
        /\ cmdOut.exc = "none"
        /\ cmdOut.searched
        /\ IF Len(TypedArgs) > 1 /\ StrIsDigit(TypedArgs[Len(TypedArgs)])
           THEN /\ cmdOut.query = JoinSpaces(SubSeq(TypedArgs, 1, Len(TypedArgs) - 1))
                /\ Digits(cmdOut.page) = TypedArgs[Len(TypedArgs)]
           ELSE /\ cmdOut.query = JoinSpaces(TypedArgs)
                /\ cmdOut.page = 1

\* the same for a list of arguments whose digits are ASCII digits
C25_ListOfArguments ==
    (cmdPc = "done" /\ cmdKind = "list" /\ cmdArgs # <<>>
     /\ "sup2" \notin SeqRange(cmdArgs[Len(cmdArgs)])) =>
        /\ cmdOut.exc = "none"
        /\ cmdOut.searched
        /\ IF Len(cmdArgs) > 1 /\ StrIsDigit(cmdArgs[Len(cmdArgs)])
           THEN /\ cmdOut.query = JoinSpaces(SubSeq(cmdArgs, 1, Len(cmdArgs) - 1))
                /\ cmdOut.page = DigitsValue(cmdArgs[Len(cmdArgs)])
           ELSE /\ cmdOut.query = JoinSpaces(cmdArgs)
                /\ cmdOut.page = 1

-----------------------------------------------------------------------------
(* The limit *)

\* the records a tier extracts from a page, in extraction order
TierRecords(tier, html) ==
    CASE tier = "embedded_json" -> RecordsOfWellFormed(AttemptedFragments("embedded", html))
      [] tier = "nuxt_payload" -> RecordsOfWellFormed(AttemptedFragments("nuxt", html))
      [] OTHER -> VideoListLoop(html, WatchMatches(html), 1, <<>>)

\* get_latest or search has returned a list
ListReturned == op \in {"latest", "search"} /\ pc = "done" /\ opResult.exc = "none"

\* C26: for every limit >= 0, get_latest and search return at most limit
\* previews, and the list returned is the prefix of length min(limit, total)
\* of the records of the tier that produced it, in extraction order.
C26_LimitPrefix ==
    ListReturned =>
        /\ Len(opResult.val) <= latestLimit
        /\ tierLog # <<>> =>
              LET records == TierRecords(tierLog[Len(tierLog)].tier, lastResp.body)
              IN /\ Len(opResult.val) = (IF latestLimit < Len(records) THEN latestLimit
                                         ELSE Len(records))
                 /\ \A i \in 1..Len(opResult.val) : opResult.val[i] = records[i]

\* get_latest returned some of the records of the embedded JSON, not all
C26_Witness ==
    /\ ListReturned
    /\ op = "latest"
    /\ Len(tierLog) = 1
    /\ opResult.val # <<>>
    /\ Len(opResult.val) < Len(TierRecords(tierLog[Len(tierLog)].tier, lastResp.body))

-----------------------------------------------------------------------------
(* get_random: the title of the video returned *)

\* get_random has returned a Video
RandomReturnedVideo ==
    op = "random" /\ pc = "done" /\ opResult.exc = "none" /\ opResult.val # None

\* C27: every Video returned by get_random has a non-empty title, on the
\* listing path as well as on the id-guessing path.
C27_RandomVideoHasTitle ==
    RandomReturnedVideo => opResult.val.title # <<>>

\* on the id-guessing path alone
C27_GuessedVideoHasTitle ==
    (RandomReturnedVideo /\ attempt >= 0) => opResult.val.title # <<>>

-----------------------------------------------------------------------------
(* get_latest: one preview for an id *)

\* C28: every list returned by get_latest contains each video_id at most
\* once, whichever tier produced it, including when the same embedded blob is
\* matched by more than one pattern or the same video appears in several
\* fragments.
C28_LatestIdsDistinct ==
    (op = "latest" /\ pc = "done" /\ opResult.exc = "none") =>
        \A i, j \in 1..Len(opResult.val) :
            opResult.val[i].video_id = opResult.val[j].video_id => i = j

\* the lists of the markup tier alone
C28_MarkupIdsDistinct ==
    (op = "latest" /\ pc = "done" /\ opResult.exc = "none" /\ Len(tierLog) = 3) =>
        \A i, j \in 1..Len(opResult.val) :
            opResult.val[i].video_id = opResult.val[j].video_id => i = j

-----------------------------------------------------------------------------
(* The session of Video.fetch and download_image *)

\* C29: when Video.fetch or download_image is called without a session, the
\* session it creates is closed on every exit path (success, non-200 status,
\* exception) before the call returns; when a session is passed in, the call
\* never closes it.
C29_OwnSessionClosed ==
    /\ (ownPc = "returned" /\ ownArg = "none") => ownSess \in {"none", "closed"}
    /\ (ownPc = "returned" /\ ownArg = "none" /\ ownResp # Failure("none")) => ownSess = "closed"
    /\ (ownPc \in {"called", "requesting", "finally", "returned"} /\ ownArg = "open") =>
          ownSess = "open"

\* a call without a session has returned after a request that raised, and a
\* session made by the call is closed
C29_Witness ==
    /\ ownPc = "returned"
    /\ ownArg = "none"
    /\ ownResp.kind \in {"timeout", "error", "cancelled"}
    /\ ownSess = "closed"

-----------------------------------------------------------------------------
(* The thumbnail of a command *)

\* C30: when several commands are handled concurrently, a thumbnail file
\* whose path _get_thumbnail_with_blur returned to a command still exists,
\* with that command's image, until that command's result has been sent: no
\* other command's cache cleanup deletes it in between.
C30_ThumbnailKeptUntilSent ==
    \A c \in CommandIds :
        /\ commands[c].pc = "yielded" => cacheFiles[commands[c].path] = commands[c].image
        /\ (commands[c].pc = "done" /\ commands[c].path # <<>>) =>
              commands[c].sent = commands[c].image

\* while no other command has been given, the file is there
C30_AloneThumbnailKept ==
    \A c \in CommandIds :
        (/\ commands[c].pc = "yielded"
         /\ \A d \in CommandIds \ {c} : commands[d].pc = "off")
        => cacheFiles[commands[c].path] = commands[c].image

-----------------------------------------------------------------------------
(* Specifications *)

\* every part of the model but the named one is at rest
IdleButJson ==
    DurIdle /\ ViewsIdle /\ RawIdle /\ ListIdle /\ ExIdle /\ DetIdle /\ VidIdle /\ SessIdle /\ CmdIdle /\ OwnIdle /\ CacheIdle /\ ClientIdle
IdleButDuration ==
    JsonIdle /\ ViewsIdle /\ RawIdle /\ ListIdle /\ ExIdle /\ DetIdle /\ VidIdle /\ SessIdle /\ CmdIdle /\ OwnIdle /\ CacheIdle /\ ClientIdle
IdleButViews ==
    JsonIdle /\ DurIdle /\ RawIdle /\ ListIdle /\ ExIdle /\ DetIdle /\ VidIdle /\ SessIdle /\ CmdIdle /\ OwnIdle /\ CacheIdle /\ ClientIdle
IdleButRaw ==
    JsonIdle /\ DurIdle /\ ViewsIdle /\ ListIdle /\ ExIdle /\ DetIdle /\ VidIdle /\ SessIdle /\ CmdIdle /\ OwnIdle /\ CacheIdle /\ ClientIdle
IdleButList ==
    JsonIdle /\ DurIdle /\ ViewsIdle /\ RawIdle /\ ExIdle /\ DetIdle /\ VidIdle /\ SessIdle /\ CmdIdle /\ OwnIdle /\ CacheIdle /\ ClientIdle
IdleButExtract ==
    JsonIdle /\ DurIdle /\ ViewsIdle /\ RawIdle /\ ListIdle /\ DetIdle /\ VidIdle /\ SessIdle /\ CmdIdle /\ OwnIdle /\ CacheIdle /\ ClientIdle
IdleButDetail ==
    JsonIdle /\ DurIdle /\ ViewsIdle /\ RawIdle /\ ListIdle /\ ExIdle /\ VidIdle /\ SessIdle /\ CmdIdle /\ OwnIdle /\ CacheIdle /\ ClientIdle
IdleButVideo ==
    JsonIdle /\ DurIdle /\ ViewsIdle /\ RawIdle /\ ListIdle /\ ExIdle /\ DetIdle /\ SessIdle /\ CmdIdle /\ OwnIdle /\ CacheIdle /\ ClientIdle
IdleButSession ==
    JsonIdle /\ DurIdle /\ ViewsIdle /\ RawIdle /\ ListIdle /\ ExIdle /\ DetIdle /\ VidIdle /\ CmdIdle /\ OwnIdle /\ CacheIdle /\ ClientIdle
IdleButSearchCmd ==
    JsonIdle /\ DurIdle /\ ViewsIdle /\ RawIdle /\ ListIdle /\ ExIdle /\ DetIdle /\ VidIdle /\ SessIdle /\ OwnIdle /\ CacheIdle /\ ClientIdle
IdleButOwnSession ==
    JsonIdle /\ DurIdle /\ ViewsIdle /\ RawIdle /\ ListIdle /\ ExIdle /\ DetIdle /\ VidIdle /\ SessIdle /\ CmdIdle /\ CacheIdle /\ ClientIdle
IdleButCache ==
    JsonIdle /\ DurIdle /\ ViewsIdle /\ RawIdle /\ ListIdle /\ ExIdle /\ DetIdle /\ VidIdle /\ SessIdle /\ CmdIdle /\ OwnIdle /\ ClientIdle
IdleButClient ==
    JsonIdle /\ DurIdle /\ ViewsIdle /\ RawIdle /\ ListIdle /\ ExIdle /\ DetIdle /\ VidIdle /\ SessIdle /\ CmdIdle /\ OwnIdle /\ CacheIdle

InitJson == JsonInit /\ IdleButJson

SpecJson == InitJson /\ [][JsonNext]_vars

InitDuration == DurInit /\ IdleButDuration

SpecDuration == InitDuration /\ [][DurNext]_vars

InitViews == ViewsInit /\ IdleButViews

SpecViews == InitViews /\ [][ViewsNext]_vars

InitRaw == RawInit /\ IdleButRaw

SpecRaw == InitRaw /\ [][RawNext]_vars

InitList == ListInit /\ IdleButList

SpecList == InitList /\ [][ListNext]_vars

InitExtract == ExInit /\ IdleButExtract

SpecExtract == InitExtract /\ [][ExNext]_vars

InitDetail == DetInit /\ IdleButDetail

SpecDetail == InitDetail /\ [][DetNext]_vars

InitVideo == VidInit /\ IdleButVideo

SpecVideo == InitVideo /\ [][VidNext]_vars

InitSession == SessInit /\ IdleButSession

SpecSession == InitSession /\ [][SessNext]_vars

InitSearchCmd == CmdInit /\ IdleButSearchCmd

SpecSearchCmd == InitSearchCmd /\ [][CmdNext]_vars

InitOwnSession == OwnInit /\ IdleButOwnSession

SpecOwnSession == InitOwnSession /\ [][OwnNext]_vars

InitCache == CacheInit /\ IdleButCache

SpecCache == InitCache /\ [][CacheNext]_vars

Init == ClientInit /\ IdleButClient

Spec == Init /\ [][Next]_vars

====
